---- MODULE Spec2Model ----
(***************************************************************************)
(* A model of the SQL object extraction engine of LakeBridge_s             *)
(* (service/sql_parser.py): SnowflakeSQLParser.parse_content, its boundary *)
(* resolver, name and dependency extraction, overlap removal, and the      *)
(* file/folder driver; and of the sequential jobs                          *)
(* (service/sequential_job_service.py): create_sequential_jobs, the        *)
(* commands it sends to the execution service and wait_for_completion;     *)
(* and of the conversion loop (service/llm_converter_service.py):          *)
(* _convert_objects and the notebooks of the tables.                       *)
(*                                                                         *)
(* A Python str is modelled as a sequence of one-character strings.        *)
(* Offsets are Python's (0-based): At(s, i) is s[i], Slice(s, a, b) is     *)
(* s[a:b].  Every operator that models a function of the source keeps the  *)
(* source's name.                                                          *)
(***************************************************************************)
EXTENDS Integers, Sequences, FiniteSets

VARIABLES
    content,    \* the buffer handed to parse_content
    hashseed,   \* hashseed[r]: the string-hash key of the run of call r
    parsed,     \* parsed[r]: whether call r of parse_content returned, and what
    folder,     \* the directory handed to parse_folder
    result,     \* whether parse_folder returned, and what
    self,       \* the attributes of the SnowflakeSQLParser instance
    workspace_paths, \* the notebook paths handed to create_sequential_jobs
    pc,         \* the position of the call of create_sequential_jobs
    remote,     \* the jobs and the runs of the execution service
    job_results, \* the dictionary `result` of create_sequential_jobs
    waiting,    \* the call of wait_for_completion: its rounds and its answer
    parsed_objects, \* the records handed to _convert_objects, by category
    position,   \* the number of records that _convert_objects has processed
    results,    \* the dictionary `results` of _convert_objects
    _table_notebook_by_name, \* the attribute of the conversion service
    notebooks   \* the notebooks of the folder of the tables

vars == <<content, hashseed, parsed, folder, result, self,
          workspace_paths, pc, remote, job_results, waiting,
          parsed_objects, position, results, _table_notebook_by_name, notebooks>>

\* The state of the extraction engine, and the state of the job service.
parser_vars == <<content, hashseed, parsed, folder, result, self>>
job_vars == <<workspace_paths, pc, remote, job_results, waiting>>
converter_vars == <<parsed_objects, position, results, _table_notebook_by_name, notebooks>>

(***************************************************************************)
(* Characters and strings                                                  *)
(***************************************************************************)

UpperLetters ==
    {"A","B","C","D","E","F","G","H","I","J","K","L","M",
     "N","O","P","Q","R","S","T","U","V","W","X","Y","Z"}

LowerLetters ==
    {"a","b","c","d","e","f","g","h","i","j","k","l","m",
     "n","o","p","q","r","s","t","u","v","w","x","y","z"}

Digits == {"0","1","2","3","4","5","6","7","8","9"}

UpperOf ==
    [c \in LowerLetters |->
        CASE c = "a" -> "A" [] c = "b" -> "B" [] c = "c" -> "C" [] c = "d" -> "D"
          [] c = "e" -> "E" [] c = "f" -> "F" [] c = "g" -> "G" [] c = "h" -> "H"
          [] c = "i" -> "I" [] c = "j" -> "J" [] c = "k" -> "K" [] c = "l" -> "L"
          [] c = "m" -> "M" [] c = "n" -> "N" [] c = "o" -> "O" [] c = "p" -> "P"
          [] c = "q" -> "Q" [] c = "r" -> "R" [] c = "s" -> "S" [] c = "t" -> "T"
          [] c = "u" -> "U" [] c = "v" -> "V" [] c = "w" -> "W" [] c = "x" -> "X"
          [] c = "y" -> "Y" [] c = "z" -> "Z"]

\* str.upper() on one character; re.IGNORECASE compares characters through it.
Upper(c) == IF c \in LowerLetters THEN UpperOf[c] ELSE c

\* \s of the re module and the whitespace of str.split()/str.strip().
IsSpace(c) == c \in {" ", "\n", "\t"}

\* \w of the re module.
IsWord(c) == c \in UpperLetters \/ c \in LowerLetters \/ c \in Digits \/ c = "_"

\* [a-zA-Z_] and [a-zA-Z0-9_.] of the dependency patterns.
IsIdentStart(c) == c \in UpperLetters \/ c \in LowerLetters \/ c = "_"
IsIdentRest(c) == IsWord(c) \/ c = "."

At(s, i) == s[i + 1]

Min(a, b) == IF a < b THEN a ELSE b

\* s[a:b] for 0 <= a, with Python's clamping of b to len(s).
Slice(s, a, b) ==
    IF a >= Min(b, Len(s)) THEN <<>> ELSE SubSeq(s, a + 1, Min(b, Len(s)))

\* The least i in a..b-1 with P(i), or b when there is none: where a loop
\* "while i < b and not P(i): i += 1" started at a stops.
First(P(_), a, b) ==
    IF \E i \in a..(b - 1) : P(i)
    THEN CHOOSE i \in a..(b - 1) : P(i) /\ \A j \in a..(i - 1) : ~P(j)
    ELSE b

\* s[i:i+len(w)] == w
StartsWith(s, i, w) ==
    /\ i + Len(w) <= Len(s)
    /\ \A k \in 1..Len(w) : s[i + k] = w[k]

\* s[i:i+len(w)].upper() == w, for an upper-case w
StartsWithUpper(s, i, w) ==
    /\ i + Len(w) <= Len(s)
    /\ \A k \in 1..Len(w) : Upper(s[i + k]) = w[k]

\* str.find(w, start): the least offset >= start where w occurs, or -1.  As
\* in every Python slice, a negative start counts from the end of the string.
find(s, w, start) ==
    LET from == IF start >= 0 THEN start
                ELSE IF Len(s) + start > 0 THEN Len(s) + start ELSE 0
        pos == First(LAMBDA i : StartsWith(s, i, w), from, Len(s))
    IN  IF pos >= Len(s) THEN -1 ELSE pos

\* s[:pos].count('\n')
CountNewlines(s, pos) == Cardinality({i \in 1..Min(pos, Len(s)) : s[i] = "\n"})

\* The offset of the first character at or after i that is not whitespace,
\* or len(s).
SkipSpace(s, i) == First(LAMBDA j : ~IsSpace(At(s, j)), i, Len(s))

\* The offset of the first whitespace character at or after i, or len(s).
SkipWord(s, i) == First(LAMBDA j : IsSpace(At(s, j)), i, Len(s))

\* The offset of the first character at or after i that cannot continue an
\* identifier ([a-zA-Z0-9_.]), or len(s).
SkipIdent(s, i) == First(LAMBDA j : ~IsIdentRest(At(s, j)), i, Len(s))

\* The offset of the end of the line that holds offset i ('.' of the re
\* module does not match a newline; '$' under re.MULTILINE matches before one).
LineEnd(s, i) == First(LAMBDA j : At(s, j) = "\n", i, Len(s))

\* str.strip(): the slice from the first to the last character that is not
\* whitespace.
strip(s) ==
    LET a == SkipSpace(s, 0)
        b == Len(s) - First(LAMBDA k : ~IsSpace(s[Len(s) - k]), 0, Len(s))
    IN  IF a >= b THEN <<>> ELSE SubSeq(s, a + 1, b)

(***************************************************************************)
(* The pattern catalog (SnowflakeSQLParser.__init__)                       *)
(***************************************************************************)

W_CREATE == <<"C","R","E","A","T","E">>
W_ALTER == <<"A","L","T","E","R">>
W_DROP == <<"D","R","O","P">>
W_INSERT == <<"I","N","S","E","R","T">>
W_INTO == <<"I","N","T","O">>
W_OR == <<"O","R">>
W_REPLACE == <<"R","E","P","L","A","C","E">>
W_AS == <<"A","S">>
W_LANGUAGE == <<"L","A","N","G","U","A","G","E">>
W_BEGIN == <<"B","E","G","I","N">>
W_END == <<"E","N","D">>
W_VALUES == <<"V","A","L","U","E","S">>
W_FROM == <<"F","R","O","M">>
W_JOIN == <<"J","O","I","N">>
W_UPDATE == <<"U","P","D","A","T","E">>
W_DOLLARS == <<"$","$">>

\* The members of the enumeration SQLObjectType, in declaration order.
SQLObjectTypeOrder ==
    <<"TABLE", "VIEW", "FUNCTION", "PROCEDURE", "SEQUENCE", "STAGE", "PIPE",
      "TASK", "WAREHOUSE", "DATABASE", "SCHEMA", "INSERT", "OTHER">>

SQLObjectType == {SQLObjectTypeOrder[i] : i \in DOMAIN SQLObjectTypeOrder}

\* SQLObjectType.<member>.value
TypeValue ==
    [t \in SQLObjectType |->
        CASE t = "TABLE"     -> <<"t","a","b","l","e","s">>
          [] t = "VIEW"      -> <<"v","i","e","w","s">>
          [] t = "FUNCTION"  -> <<"f","u","n","c","t","i","o","n","s">>
          [] t = "PROCEDURE" -> <<"p","r","o","c","e","d","u","r","e","s">>
          [] t = "SEQUENCE"  -> <<"s","e","q","u","e","n","c","e","s">>
          [] t = "STAGE"     -> <<"s","t","a","g","e","s">>
          [] t = "PIPE"      -> <<"p","i","p","e","s">>
          [] t = "TASK"      -> <<"t","a","s","k","s">>
          [] t = "WAREHOUSE" -> <<"w","a","r","e","h","o","u","s","e","s">>
          [] t = "DATABASE"  -> <<"d","a","t","a","b","a","s","e","s">>
          [] t = "SCHEMA"    -> <<"s","c","h","e","m","a","s">>
          [] t = "INSERT"    -> <<"i","n","s","e","r","t","s">>
          [] t = "OTHER"     -> <<"o","t","h","e","r","s">>]

\* The keyword of each category that has CREATE / ALTER / DROP anchors.
Keyword ==
    [ TABLE     |-> <<"T","A","B","L","E">>,
      VIEW      |-> <<"V","I","E","W">>,
      FUNCTION  |-> <<"F","U","N","C","T","I","O","N">>,
      PROCEDURE |-> <<"P","R","O","C","E","D","U","R","E">>,
      SEQUENCE  |-> <<"S","E","Q","U","E","N","C","E">>,
      STAGE     |-> <<"S","T","A","G","E">>,
      PIPE      |-> <<"P","I","P","E">>,
      TASK      |-> <<"T","A","S","K">>,
      WAREHOUSE |-> <<"W","A","R","E","H","O","U","S","E">>,
      DATABASE  |-> <<"D","A","T","A","B","A","S","E">>,
      SCHEMA    |-> <<"S","C","H","E","M","A">> ]

\* The keys of self.patterns, in insertion order (the order parse_content
\* iterates them in).
PatternTypes ==
    <<"TABLE", "VIEW", "FUNCTION", "PROCEDURE", "SEQUENCE", "STAGE", "PIPE",
      "TASK", "WAREHOUSE", "DATABASE", "SCHEMA", "INSERT">>

\* A pattern  verb \s+ (?:OR \s+ REPLACE \s+)? kw \s+  is the record of its
\* verb, whether it has the optional group, and its keyword.
patterns(obj_type) ==
    IF obj_type = "INSERT"
    THEN << [verb |-> W_INSERT, orReplace |-> FALSE, kw |-> W_INTO] >>
    ELSE << [verb |-> W_CREATE, orReplace |-> TRUE,  kw |-> Keyword[obj_type]],
            [verb |-> W_ALTER,  orReplace |-> FALSE, kw |-> Keyword[obj_type]],
            [verb |-> W_DROP,   orReplace |-> FALSE, kw |-> Keyword[obj_type]] >>

\* A dictionary from types to lists of patterns is the list of its items, in
\* insertion order.
PatternItems ==
    [i \in DOMAIN PatternTypes |->
        [key |-> PatternTypes[i], value |-> patterns(PatternTypes[i])]]

\* The attributes that __init__ sets.  A compiled pattern is the pattern with
\* the flags it is matched under, which are the same for all: the matching
\* operators below compare letters through Upper.
__init__ == [patterns |-> PatternItems, compiled_patterns |-> PatternItems]

\* self.compiled_patterns[obj_type]
compiled_patterns(obj_type) ==
    self.compiled_patterns[
        CHOOSE i \in DOMAIN self.compiled_patterns :
            self.compiled_patterns[i].key = obj_type].value

\* A literal word of a pattern at offset i, under re.IGNORECASE: the offset
\* after it, or -1.
MatchWord(s, i, w) ==
    IF i >= 0 /\ StartsWithUpper(s, i, w) THEN i + Len(w) ELSE -1

\* \s+ at offset i (greedy; what follows it in every pattern is a letter or
\* the end of the pattern, so only the whole run can match): the offset
\* after it, or -1.
MatchSpaces(s, i) ==
    IF i >= 0 /\ i < Len(s) /\ IsSpace(At(s, i)) THEN SkipSpace(s, i) ELSE -1

\* kw \s+ at offset i
MatchTail(s, i, pat) == MatchSpaces(s, MatchWord(s, i, pat.kw))

\* pattern.match at offset i: the offset of the end of the match, or -1.
\* The optional group is tried first, then skipped (backtracking).
PatternMatchEnd(s, i, pat) ==
    LET a == MatchSpaces(s, MatchWord(s, i, pat.verb))
    IN  IF a = -1 THEN -1
        ELSE LET g == IF pat.orReplace
                      THEN MatchSpaces(s, MatchWord(s,
                               MatchSpaces(s, MatchWord(s, a, W_OR)), W_REPLACE))
                      ELSE -1
                 withGroup == IF g = -1 THEN -1 ELSE MatchTail(s, g, pat)
             IN  IF withGroup # -1 THEN withGroup ELSE MatchTail(s, a, pat)

\* pattern.search(s, i): <<start, end>> of the leftmost match at or after
\* offset i, or <<-1, -1>>.
search(s, pat, i) ==
    LET start == First(LAMBDA j : PatternMatchEnd(s, j, pat) # -1, i, Len(s))
    IN  IF start >= Len(s) THEN <<-1, -1>>
        ELSE <<start, PatternMatchEnd(s, start, pat)>>

\* [m.start() for m in pattern.finditer(s)]: the leftmost match, then the
\* leftmost match at or after its end, and so on.
RECURSIVE finditer(_, _, _)
finditer(s, pat, i) ==
    LET m == search(s, pat, i)
    IN  IF m[1] = -1 THEN <<>> ELSE <<m[1]>> \o finditer(s, pat, m[2])

(***************************************************************************)
(* The boundary resolver                                                   *)
(***************************************************************************)

\* The characters at which the loop of _find_semicolon_end does more than
\* "i += 1".
IsScanEvent(c) == c \in {"\\", "'", "\"", ";"}

\* The loop of _find_semicolon_end, entered at offset i with escape_next
\* false.  An iteration at any other character than \ ' " ; changes nothing
\* but i, so the scan goes from one such character to the next; the
\* iteration after a backslash (escape_next set) skips one character
\* whatever it is.
RECURSIVE SemicolonScan(_, _, _, _)
SemicolonScan(s, i, in_single_quote, in_double_quote) ==
    LET e == First(LAMBDA j : IsScanEvent(At(s, j)), i, Len(s)) IN
    IF e >= Len(s) THEN Len(s)
    ELSE IF At(s, e) = ";" /\ ~in_single_quote /\ ~in_double_quote THEN e + 1
    ELSE SemicolonScan(s,
            IF At(s, e) = "\\" THEN e + 2 ELSE e + 1,
            IF At(s, e) = "'" /\ ~in_double_quote
                THEN ~in_single_quote ELSE in_single_quote,
            IF At(s, e) = "\"" /\ ~in_single_quote
                THEN ~in_double_quote ELSE in_double_quote)

_find_semicolon_end(s, start_pos) == SemicolonScan(s, start_pos, FALSE, FALSE)

\* A faulty _find_dollar_quote_end, which looks for the closing "$$" from the
\* opening one instead of after it.
DollarQuoteEndFromOpening(s, start_pos) ==
    IF find(s, <<";">>, find(s, W_DOLLARS, start_pos) + 2) # -1
    THEN find(s, <<";">>, find(s, W_DOLLARS, start_pos) + 2) + 1
    ELSE find(s, W_DOLLARS, start_pos) + 2

\* _find_dollar_quote_end
_find_dollar_quote_end(s, start_pos) ==
    LET end_pos == find(s, W_DOLLARS, start_pos + 2)
    IN  IF end_pos = -1 THEN -1
        ELSE LET semicolon_pos == find(s, <<";">>, end_pos + 2)
             IN  IF semicolon_pos # -1 THEN semicolon_pos + 1 ELSE end_pos + 2

\* The loop of _find_begin_end_end, at offset i with begin_count.  An
\* iteration at an offset where neither BEGIN nor END starts changes nothing
\* but i, so the scan goes from one such offset to the next.
RECURSIVE BeginEndScan(_, _, _)
BeginEndScan(s, i, begin_count) ==
    LET e == First(LAMBDA j : StartsWithUpper(s, j, W_BEGIN)
                              \/ StartsWithUpper(s, j, W_END), i, Len(s)) IN
    IF e >= Len(s) THEN -1
    ELSE IF StartsWithUpper(s, e, W_BEGIN)
    THEN BeginEndScan(s, e + 5, begin_count + 1)
    ELSE IF begin_count - 1 = 0
    THEN LET semicolon_pos == find(s, <<";">>, e + 3)
         IN  IF semicolon_pos # -1 THEN semicolon_pos + 1 ELSE e + 3
    ELSE BeginEndScan(s, e + 3, begin_count - 1)

_find_begin_end_end(s, start_pos) == BeginEndScan(s, start_pos, 0)

\* A faulty _find_procedure_end, which looks for the introducer of the body
\* within the statement of the anchor only, up to its first semicolon.
ProcedureEndWithinStatement(s, start_pos) ==
    LET own_end == _find_semicolon_end(s, start_pos)
        as_pos == find(s, W_AS, start_pos)
        lang_pos == find(s, W_LANGUAGE, start_pos)
        intro == IF as_pos # -1 /\ as_pos < own_end THEN as_pos
                 ELSE IF lang_pos # -1 /\ lang_pos < own_end THEN lang_pos
                 ELSE -1
    IN  IF intro = -1 THEN own_end
        ELSE LET dollar == find(s, W_DOLLARS, intro)
             IN  IF dollar = -1 THEN own_end
                 ELSE _find_dollar_quote_end(s, dollar)

\* A faulty _find_procedure_end, which finds the introducer of the body in
\* any letter case.
ProcedureEndAnyCase(s, start_pos) ==
    LET as_pos == First(LAMBDA i : StartsWithUpper(s, i, W_AS), start_pos, Len(s))
        lang_pos == First(LAMBDA i : StartsWithUpper(s, i, W_LANGUAGE), start_pos, Len(s))
        intro == IF as_pos < Len(s) THEN as_pos
                 ELSE IF lang_pos < Len(s) THEN lang_pos ELSE -1
    IN  IF intro = -1 THEN _find_semicolon_end(s, start_pos)
        ELSE LET dollar == find(s, W_DOLLARS, intro)
             IN  IF dollar = -1 THEN _find_semicolon_end(s, start_pos)
                 ELSE _find_dollar_quote_end(s, dollar)

\* _find_procedure_end.  After a failed find('$$') body_start is -1, and it
\* is with that start that 'BEGIN' is searched.
_find_procedure_end(s, start_pos) ==
    LET as_pos == find(s, W_AS, start_pos)
        intro == IF as_pos # -1 THEN as_pos ELSE find(s, W_LANGUAGE, start_pos)
    IN  IF intro = -1 THEN _find_semicolon_end(s, start_pos)
        ELSE LET dollar == find(s, W_DOLLARS, intro)
                 body_start == IF dollar # -1 THEN dollar
                               ELSE find(s, W_BEGIN, dollar)
             IN  IF body_start = -1 THEN _find_semicolon_end(s, start_pos)
                 ELSE IF Slice(s, body_start, body_start + 2) = W_DOLLARS
                 THEN _find_dollar_quote_end(s, body_start)
                 ELSE _find_begin_end_end(s, body_start)

\* _find_object_end
_find_object_end(s, start_pos, obj_type) ==
    IF obj_type \in {"PROCEDURE", "FUNCTION"}
    THEN _find_procedure_end(s, start_pos)
    ELSE _find_semicolon_end(s, start_pos)

(***************************************************************************)
(* Name and dependency extraction                                          *)
(***************************************************************************)

\* re.sub(r'--.*$', '', s, flags=re.MULTILINE), from offset i: the text up
\* to the next "--", then what follows the end of its line.
RECURSIVE StripLineComments(_, _)
StripLineComments(s, i) ==
    LET open == find(s, <<"-", "-">>, i) IN
    IF i >= Len(s) THEN <<>>
    ELSE IF open = -1 THEN Slice(s, i, Len(s))
    ELSE Slice(s, i, open) \o StripLineComments(s, LineEnd(s, open))

\* re.sub(r'/\*.*?\*/', '', s, flags=re.DOTALL), from offset i: the text up
\* to the next "/*" that has a "*/" after it, then what follows that "*/".
\* When the first "/*" has no "*/" after it no later one has, and the rest
\* stays.
RECURSIVE StripBlockComments(_, _)
StripBlockComments(s, i) ==
    LET open == find(s, <<"/", "*">>, i)
        close == IF open = -1 THEN -1 ELSE find(s, <<"*", "/">>, open + 2)
    IN  IF i >= Len(s) THEN <<>>
        ELSE IF close = -1 THEN Slice(s, i, Len(s))
        ELSE Slice(s, i, open) \o StripBlockComments(s, close + 2)

\* s.split(), from offset i
RECURSIVE split(_, _)
split(s, i) ==
    LET a == SkipSpace(s, i)
    IN  IF a >= Len(s) THEN <<>>
        ELSE <<Slice(s, a, SkipWord(s, a))>> \o split(s, SkipWord(s, a))

\* ' '.join(parts)
RECURSIVE join(_)
join(parts) ==
    IF parts = <<>> THEN <<>>
    ELSE IF Len(parts) = 1 THEN parts[1]
    ELSE parts[1] \o <<" ">> \o join(Tail(parts))

\* re.sub(r'[^\w._]', '', name)
KeepNameChars(name) == SelectSeq(name, LAMBDA c : IsWord(c) \/ c = ".")

\* str(n) for n >= 0
DigitOf == <<"0","1","2","3","4","5","6","7","8","9">>

RECURSIVE str(_)
str(n) == IF n < 10 THEN <<DigitOf[n + 1]>> ELSE str(n \div 10) \o <<DigitOf[(n % 10) + 1]>>

\* The modulus of the placeholder name.
HashModulus == 10000

\* hash(s) of a str: SipHash keyed by a per-process random key (PYTHONHASHSEED
\* unset), so equal strings hash equally within a run and the value of one
\* string varies from run to run.  The model keeps exactly that: a value fixed
\* by (seed, s), different for different seeds.
HashRange == 104729

hash(seed, s) ==
    (seed * 7919 + 31 * Len(s)
     + Cardinality({i \in 1..Len(s) : s[i] \in UpperLetters})) % HashRange

\* A faulty name part, which is not cut at the parenthesis or at VALUES.
NamePartUncut(remaining, obj_type) == remaining

\* The name part of `remaining` for each object type (the if/elif/else of
\* _extract_object_name).
NamePart(remaining, obj_type) ==
    IF obj_type \in {"PROCEDURE", "FUNCTION"}
    THEN LET paren_pos == find(remaining, <<"(">>, 0)
         IN  IF paren_pos # -1 THEN strip(Slice(remaining, 0, paren_pos))
             ELSE remaining
    ELSE IF obj_type = "INSERT"
    THEN LET values_pos == find(remaining, W_VALUES, 0)
             paren_pos == find(remaining, <<"(">>, 0)
         IN  IF values_pos # -1 /\ (paren_pos = -1 \/ values_pos < paren_pos)
             THEN strip(Slice(remaining, 0, values_pos))
             ELSE IF paren_pos # -1 THEN strip(Slice(remaining, 0, paren_pos))
             ELSE remaining
    ELSE remaining

\* The loop of _extract_object_name over the patterns of obj_type, from the
\* k-th: the name after the first pattern that matches clean_sql and is
\* followed by some token, or the placeholder.
RECURSIVE NameFromPatterns(_, _, _, _, _)
NameFromPatterns(clean_sql, sql_content, obj_type, k, seed) ==
    IF k > Len(compiled_patterns(obj_type))
    THEN <<"u","n","n","a","m","e","d","_">> \o TypeValue[obj_type] \o <<"_">>
         \o str(hash(seed, sql_content) % HashModulus)
    ELSE LET m == search(clean_sql, compiled_patterns(obj_type)[k], 0)
             remaining == strip(Slice(clean_sql, m[2], Len(clean_sql)))
             parts == split(NamePart(remaining, obj_type), 0)
         IN  IF m[1] # -1 /\ parts # <<>>
             THEN KeepNameChars(parts[1])
             ELSE NameFromPatterns(clean_sql, sql_content, obj_type, k + 1, seed)

\* _extract_object_name
_extract_object_name(sql_content, obj_type, seed) ==
    NameFromPatterns(join(split(StripBlockComments(
                         StripLineComments(sql_content, 0), 0), 0)),
                     sql_content, obj_type, 1, seed)

\* kw \s+ [a-zA-Z_] at offset i: the offset of the identifier, or -1.
DependencyAt(s, i, kw) ==
    LET j == MatchSpaces(s, MatchWord(s, i, kw))
    IN  IF j # -1 /\ j < Len(s) /\ IsIdentStart(At(s, j)) THEN j ELSE -1

\* A faulty findall, which takes a match at every offset, also inside the
\* identifier of an earlier match.
findallOverlapping(s, kw, i) ==
    {Slice(s, DependencyAt(s, m, kw), SkipIdent(s, DependencyAt(s, m, kw))) :
        m \in {j \in i..(Len(s) - 1) : DependencyAt(s, j, kw) # -1}}

\* set(re.findall(kw + r'\s+([a-zA-Z_][a-zA-Z0-9_.]*)', s, re.IGNORECASE)),
\* from offset i: the leftmost match, then the matches after its end.
RECURSIVE findall(_, _, _)
findall(s, kw, i) ==
    LET m == First(LAMBDA j : DependencyAt(s, j, kw) # -1, i, Len(s))
        ident_end == SkipIdent(s, DependencyAt(s, m, kw))
    IN  IF m >= Len(s) THEN {}
        ELSE {Slice(s, DependencyAt(s, m, kw), ident_end)}
             \cup findall(s, kw, ident_end)

\* The keywords of the five dependency patterns.
DependencyKeywords == {W_FROM, W_JOIN, W_UPDATE, W_INTO, Keyword["TABLE"]}

\* _extract_dependencies: the list is built from a set; its order is not
\* modelled.
_extract_dependencies(sql_content) ==
    UNION {findall(sql_content, kw, 0) : kw \in DependencyKeywords}

(***************************************************************************)
(* parse_content                                                           *)
(***************************************************************************)

\* Python's None, as a record so that it compares with an SQLObject.
None == [none |-> TRUE]

\* SQLObject(name=..., object_type=..., ...): the dataclass constructor.
SQLObject(name, object_type, sql_content, start_line, end_line, file_path, dependencies) ==
    [name         |-> name,
     object_type  |-> object_type,
     sql_content  |-> sql_content,
     start_line   |-> start_line,
     end_line     |-> end_line,
     file_path    |-> file_path,
     dependencies |-> dependencies]

\* A faulty end_line, which counts the newlines and forgets the "+ 1".
EndLineZeroBased(s, end_pos) == CountNewlines(s, end_pos)

\* end_line = content[:end_pos].count('\n') + 1
EndLine(s, end_pos) == CountNewlines(s, end_pos) + 1

\* The construction of the record from the stripped text sql_content.
ObjectOfText(sql_content, obj_type, start_line, end_line, file_path, seed) ==
    SQLObject(_extract_object_name(sql_content, obj_type, seed), obj_type,
              sql_content, start_line, end_line, file_path,
              _extract_dependencies(sql_content))

\* _extract_complete_object once end_pos is resolved.
ObjectUpTo(s, start_pos, end_pos, obj_type, start_line, file_path, seed) ==
    IF end_pos = -1 THEN None
    ELSE ObjectOfText(strip(Slice(s, start_pos, end_pos)), obj_type,
                      start_line, EndLine(s, end_pos), file_path, seed)

\* _extract_complete_object
_extract_complete_object(s, start_pos, obj_type, start_line, file_path, seed) ==
    ObjectUpTo(s, start_pos, _find_object_end(s, start_pos, obj_type),
               obj_type, start_line, file_path, seed)

\* "if sql_obj: objects.append(sql_obj)": what one match adds to the list.
Appended(sql_obj) == IF sql_obj # None THEN <<sql_obj>> ELSE <<>>

\* A faulty start_line, which counts the newlines and forgets the "+ 1".
StartLineZeroBased(s, start_pos) == CountNewlines(s, start_pos)

\* start_line = content[:start_pos].count('\n') + 1
StartLine(s, start_pos) == CountNewlines(s, start_pos) + 1

\* A faulty loop over the matches of one pattern, which gives up at the first
\* match whose end is not found.
RECURSIVE ObjectsOfMatchesStopping(_, _, _, _, _)
ObjectsOfMatchesStopping(s, starts, obj_type, file_path, seed) ==
    IF starts = <<>>
       \/ _extract_complete_object(s, Head(starts), obj_type,
              StartLine(s, Head(starts)), file_path, seed) = None
    THEN <<>>
    ELSE Appended(_extract_complete_object(s, Head(starts), obj_type,
                      StartLine(s, Head(starts)), file_path, seed))
         \o ObjectsOfMatchesStopping(s, Tail(starts), obj_type, file_path, seed)

\* The body of the loop over the matches of one pattern.
RECURSIVE ObjectsOfMatches(_, _, _, _, _)
ObjectsOfMatches(s, starts, obj_type, file_path, seed) ==
    IF starts = <<>> THEN <<>>
    ELSE Appended(_extract_complete_object(s, Head(starts), obj_type,
                      StartLine(s, Head(starts)), file_path, seed))
         \o ObjectsOfMatches(s, Tail(starts), obj_type, file_path, seed)

\* The loop over the patterns of one type, from the k-th.
RECURSIVE ObjectsOfType(_, _, _, _, _)
ObjectsOfType(s, obj_type, k, file_path, seed) ==
    IF k > Len(compiled_patterns(obj_type)) THEN <<>>
    ELSE ObjectsOfMatches(s, finditer(s, compiled_patterns(obj_type)[k], 0),
                          obj_type, file_path, seed)
         \o ObjectsOfType(s, obj_type, k + 1, file_path, seed)

\* The loop over compiled_patterns.items(), from the t-th type: the list
\* `objects` before it is sorted.
RECURSIVE FoundObjects(_, _, _, _)
FoundObjects(s, t, file_path, seed) ==
    IF t > Len(self.compiled_patterns) THEN <<>>
    ELSE ObjectsOfType(s, self.compiled_patterns[t].key, 1, file_path, seed)
         \o FoundObjects(s, t + 1, file_path, seed)

\* A faulty insertion, which puts x before the elements of the same
\* start_line: the sort is no longer stable.
RECURSIVE InsertBeforeEqual(_, _)
InsertBeforeEqual(sorted, x) ==
    IF sorted = <<>> THEN <<x>>
    ELSE IF Head(sorted).start_line < x.start_line
    THEN <<Head(sorted)>> \o InsertBeforeEqual(Tail(sorted), x)
    ELSE <<x>> \o sorted

\* Insertion of x into a list sorted by start_line, after every element whose
\* start_line is not larger (list.sort is stable).
RECURSIVE InsertByStartLine(_, _)
InsertByStartLine(sorted, x) ==
    IF sorted = <<>> THEN <<x>>
    ELSE IF Head(sorted).start_line <= x.start_line
    THEN <<Head(sorted)>> \o InsertByStartLine(Tail(sorted), x)
    ELSE <<x>> \o sorted

\* A faulty parse_content, which forgets to sort the list.
Unsorted(objects) == objects

\* objects.sort(key=lambda x: x.start_line)
RECURSIVE SortByStartLine(_)
SortByStartLine(objects) ==
    IF objects = <<>> THEN <<>>
    ELSE InsertByStartLine(SortByStartLine(SubSeq(objects, 1, Len(objects) - 1)),
                           objects[Len(objects)])

\* A faulty overlap test, with strict comparisons: two ranges that share
\* only a boundary line pass it.
OverlapsStrictly(obj, existing) ==
    obj.start_line < existing.end_line /\ obj.end_line > existing.start_line

\* The test of _remove_overlapping_objects on one pair.
Overlaps(obj, existing) ==
    obj.start_line <= existing.end_line /\ obj.end_line >= existing.start_line

\* A faulty loop of _remove_overlapping_objects, which tests each object
\* against the first kept record only.
RECURSIVE FilterFromAgainstFirst(_, _, _)
FilterFromAgainstFirst(objects, k, filtered) ==
    IF k > Len(objects) THEN filtered
    ELSE IF Overlaps(objects[k], filtered[1])
    THEN FilterFromAgainstFirst(objects, k + 1, filtered)
    ELSE FilterFromAgainstFirst(objects, k + 1, Append(filtered, objects[k]))

\* The loop of _remove_overlapping_objects over objects[k:], with the list
\* filtered so far.
RECURSIVE FilterFrom(_, _, _)
FilterFrom(objects, k, filtered) ==
    IF k > Len(objects) THEN filtered
    ELSE IF \E e \in DOMAIN filtered : Overlaps(objects[k], filtered[e])
    THEN FilterFrom(objects, k + 1, filtered)
    ELSE FilterFrom(objects, k + 1, Append(filtered, objects[k]))

\* _remove_overlapping_objects
_remove_overlapping_objects(objects) ==
    IF objects = <<>> THEN objects
    ELSE FilterFrom(objects, 2, <<objects[1]>>)

\* parse_content, in a run whose string-hash key is seed
parse_content(s, file_path, seed) ==
    _remove_overlapping_objects(SortByStartLine(FoundObjects(s, 1, file_path, seed)))

(***************************************************************************)
(* The state machine: one call of parse_content per program run            *)
(***************************************************************************)

\* A call that has not returned yet.
NotCalled == [done |-> FALSE, objects |-> <<>>]

\* No folder is being parsed.
NoFolder == [kind |-> "missing", files |-> <<>>]

\* The default file_path of parse_content, "".
NoPath == <<>>

\* The dictionary {}.
EmptyDict == [k \in {} |-> k]

\* The execution service holds no job and no run.
NoRemote == [jobs |-> <<>>, runs |-> <<>>]

\* wait_for_completion is not called.
NotWaiting == [round |-> 0, timed_out |-> FALSE, status |-> EmptyDict]

\* create_sequential_jobs is not called.
NoJobsCall ==
    /\ workspace_paths = <<>>
    /\ pc = "idle"
    /\ remote = NoRemote
    /\ job_results = EmptyDict
    /\ waiting = NotWaiting

\* _convert_objects is not called.
NoConversion ==
    /\ parsed_objects = <<>>
    /\ position = 0
    /\ results = EmptyDict
    /\ _table_notebook_by_name = EmptyDict
    /\ notebooks = EmptyDict

\* parse_content(content) in run r, whose string-hash key is hashseed[r].
ParseContent(r) ==
    /\ ~parsed[r].done
    /\ parsed' = [parsed EXCEPT ![r] =
                     [done    |-> TRUE,
                      objects |-> parse_content(content, NoPath, hashseed[r])]]
    /\ UNCHANGED <<content, hashseed, folder, result, self, job_vars, converter_vars>>

ParseNext == \E r \in DOMAIN parsed : ParseContent(r)

\* The buffers made of at most n pieces of lib, one after the other.
RECURSIVE Concats(_, _)
Concats(lib, n) ==
    IF n = 0 THEN {<<>>}
    ELSE Concats(lib, n - 1) \cup {b \o f : b \in Concats(lib, n - 1), f \in lib}

\* The number of pieces of a buffer.
MaxPieces == 2

\* parse_content is called on one of bufs, once per element of one of the
\* sequences of keys: call r happens in a program run whose string-hash key
\* is hashseed[r].
InitParse(bufs, keys) ==
    /\ content \in bufs
    /\ hashseed \in keys
    /\ parsed = [r \in DOMAIN hashseed |-> NotCalled]
    /\ folder = NoFolder
    /\ result = NotCalled
    /\ self = __init__
    /\ NoJobsCall
    /\ NoConversion

(***************************************************************************)
(* Scripts of statements of several categories                             *)
(***************************************************************************)

\* CREATE TABLE t (\n a INT);\n
S_CreateTable ==
    <<"C","R","E","A","T","E"," ","T","A","B","L","E"," ","t"," ","(","\n",
      " ","a"," ","I","N","T",")",";","\n">>

\* DROP VIEW v; 
S_DropView ==
    <<"D","R","O","P"," ","V","I","E","W"," ","v",";"," ">>

\* ALTER TABLE t\n
S_AlterOpen ==
    <<"A","L","T","E","R"," ","T","A","B","L","E"," ","t","\n">>

\* INSERT INTO t VALUES (';');\n
S_Insert ==
    <<"I","N","S","E","R","T"," ","I","N","T","O"," ","t"," ","V","A","L",
      "U","E","S"," ","(","'",";","'",")",";","\n">>

\* CREATE FUNCTION f() AS $$ 1; $$;\n
S_Function ==
    <<"C","R","E","A","T","E"," ","F","U","N","C","T","I","O","N"," ","f",
      "(",")"," ","A","S"," ","$","$"," ","1",";"," ","$","$",";","\n">>

\* DROP TABLE --x;\n
S_DropComment ==
    <<"D","R","O","P"," ","T","A","B","L","E"," ","-","-","x",";","\n">>

\* DROP TASK a; DROP PIPE b;\n
S_TwoOnLine ==
    <<"D","R","O","P"," ","T","A","S","K"," ","a",";"," ","D","R","O","P",
      " ","P","I","P","E"," ","b",";","\n">>

\* \n\n
S_Blank ==
    <<"\n","\n">>

\* CREATE PROCEDURE p() AS $$ x\n
S_OpenDollar ==
    <<"C","R","E","A","T","E"," ","P","R","O","C","E","D","U","R","E"," ",
      "p","(",")"," ","A","S"," ","$","$"," ","x","\n">>

ScriptPieces ==
    {S_CreateTable, S_DropView, S_AlterOpen, S_Insert, S_Function,
     S_DropComment, S_TwoOnLine, S_Blank, S_OpenDollar}

InitScript == InitParse(Concats(ScriptPieces, MaxPieces), {<<1>>})

SpecScript == InitScript /\ [][ParseNext]_vars

\* The lists returned by the calls of parse_content that have returned.
Returned == {parsed[r].objects : r \in {q \in DOMAIN parsed : parsed[q].done}}

\* The 1-based number of the line that holds offset pos of the buffer.
LineOf(s, pos) == Cardinality({i \in 1..pos : s[i] = "\n"}) + 1

\* The offsets of s at which an anchor pattern of obj_type matches.
AnchorsOf(s, obj_type) ==
    {pos \in 0..(Len(s) - 1) :
        \E k \in DOMAIN patterns(obj_type) :
            PatternMatchEnd(s, pos, patterns(obj_type)[k]) # -1}

\* C1: any two distinct records returned by parse_content have disjoint
\* ranges of lines start_line..end_line: no line belongs to two of them.
C1_DisjointLineRanges ==
    \A objects \in Returned :
        \A i, j \in DOMAIN objects :
            i # j =>
                (objects[i].start_line .. objects[i].end_line)
                \cap (objects[j].start_line .. objects[j].end_line) = {}

\* C1's case: parse_content returned two records or more after it had
\* discarded a candidate that covers a line of a record it kept.
C1_Witness ==
    \E objects \in Returned :
        /\ Len(objects) >= 2
        /\ Len(FoundObjects(content, 1, NoPath, 1)) > Len(objects)

\* C5: the text of every returned record is a contiguous piece of the
\* buffer: it starts at the offset of an anchor of the record's type on line
\* start_line, has no whitespace at either end, is followed by nothing but
\* whitespace up to the resolved end, and every character of it is on one of
\* the lines start_line..end_line.
C5_TextIsSliceOfBuffer ==
    \A objects \in Returned :
        \A i \in DOMAIN objects :
            LET o == objects[i] IN
            \E pos \in AnchorsOf(content, o.object_type) :
                /\ SubSeq(content, pos + 1, pos + Len(o.sql_content)) = o.sql_content
                /\ LineOf(content, pos) = o.start_line
                /\ \A k \in 1..Len(o.sql_content) :
                       LineOf(content, pos + k - 1) \in o.start_line..o.end_line
                /\ o.sql_content # <<>> =>
                       /\ ~IsSpace(o.sql_content[1])
                       /\ ~IsSpace(o.sql_content[Len(o.sql_content)])
                /\ LET end_pos == _find_object_end(content, pos, o.object_type)
                   IN  \A k \in (pos + Len(o.sql_content) + 1)..end_pos :
                           IsSpace(content[k])

\* C5's case: a returned record whose text spans several lines and is
\* followed by whitespace that was removed from it.
C5_Witness ==
    \E objects \in Returned :
        \E i \in DOMAIN objects :
            /\ objects[i].end_line > objects[i].start_line
            /\ \E k \in 1..Len(objects[i].sql_content) :
                   objects[i].sql_content[k] = "\n"
            /\ \E pos \in AnchorsOf(content, objects[i].object_type) :
                   /\ LineOf(content, pos) = objects[i].start_line
                   /\ _find_object_end(content, pos, objects[i].object_type)
                          > pos + Len(objects[i].sql_content)

(***************************************************************************)
(* Routines: CREATE PROCEDURE / FUNCTION with a block or a "$$" body       *)
(***************************************************************************)

\* CREATE PROCEDURE p() AS\n
R_ProcAs ==
    <<"C","R","E","A","T","E"," ","P","R","O","C","E","D","U","R","E"," ",
      "p","(",")"," ","A","S","\n">>

\* CREATE FUNCTION f() LANGUAGE sql 
R_FuncLang ==
    <<"C","R","E","A","T","E"," ","F","U","N","C","T","I","O","N"," ","f",
      "(",")"," ","L","A","N","G","U","A","G","E"," ","s","q","l"," ">>

\* BEGIN x; BEGIN y; END; 
R_Nested ==
    <<"B","E","G","I","N"," ","x",";"," ","B","E","G","I","N"," ","y",";",
      " ","E","N","D",";"," ">>

\* END;\n
R_End ==
    <<"E","N","D",";","\n">>

\* $$ a; $$
R_Body ==
    <<"$","$"," ","a",";"," ","$","$">>

\* ;\n
R_Semi ==
    <<";","\n">>

RoutineParts == {R_ProcAs, R_FuncLang, R_Nested, R_End, R_Body, R_Semi}

\* The number of parts of a routine buffer.
MaxParts == 3

InitRoutine == InitParse(Concats(RoutineParts, MaxParts), {<<1>>})

SpecRoutine == InitRoutine /\ [][ParseNext]_vars

\* The offsets at which w occurs in s.
Occurrences(s, w) ==
    {i \in 0..(Len(s) - Len(w)) : SubSeq(s, i + 1, i + Len(w)) = w}

\* The least member of a non-empty set of integers.
Least(S) == CHOOSE x \in S : \A y \in S : x <= y

\* The least member of S that is at least n, or -1.
LeastFrom(S, n) ==
    IF {x \in S : x >= n} = {} THEN -1 ELSE Least({x \in S : x >= n})

\* An anchor of a routine (procedure or function) starts at offset 0 of s.
RoutineAtStart(s) == 0 \in AnchorsOf(s, "PROCEDURE") \cup AnchorsOf(s, "FUNCTION")

\* The word w (upper-case) stands at offset i of s as a whole word, in any
\* letter case.
WholeWordAt(s, i, w) ==
    /\ StartsWithUpper(s, i, w)
    /\ i = 0 \/ ~IsWord(At(s, i - 1))
    /\ i + Len(w) = Len(s) \/ ~IsWord(At(s, i + Len(w)))

\* The offsets of the whole words BEGIN and END of s.
BeginWords(s) == {i \in 0..(Len(s) - 1) : WholeWordAt(s, i, W_BEGIN)}
EndWords(s) == {i \in 0..(Len(s) - 1) : WholeWordAt(s, i, W_END)}

\* The nesting depth of blocks after the words that start before offset i.
DepthBefore(s, i) ==
    Cardinality({b \in BeginWords(s) : b < i})
    - Cardinality({e \in EndWords(s) : e < i})

\* The offset of the END that closes the outermost block of s: the first END
\* that brings the depth back to zero; or -1.
OutermostEnd(s) ==
    LeastFrom({e \in EndWords(s) : DepthBefore(s, e) = 1}, 0)

\* s is a routine whose body is a block with a nested block and inner
\* semicolons, without "$$", closed and followed by a semicolon.
HasNestedBlockBody(s) ==
    /\ RoutineAtStart(s)
    /\ Occurrences(s, W_DOLLARS) = {}
    /\ OutermostEnd(s) # -1
    /\ \A e \in EndWords(s) : e < OutermostEnd(s) => DepthBefore(s, e) >= 1
    /\ Cardinality({b \in BeginWords(s) : b < OutermostEnd(s)}) >= 2
    /\ \E k \in Occurrences(s, <<";">>) :
           Least(BeginWords(s)) < k /\ k < OutermostEnd(s)
    /\ LeastFrom(Occurrences(s, <<";">>), OutermostEnd(s)) # -1

\* C2: a routine whose body is a BEGIN ... END block with nested blocks and
\* inner semicolons (no "$$") is extracted up to the first semicolon after the
\* END that closes the outermost BEGIN.
C2_EndsAfterOutermostEnd ==
    \A objects \in Returned :
        HasNestedBlockBody(content) =>
            \E i \in DOMAIN objects :
                /\ objects[i].object_type \in {"PROCEDURE", "FUNCTION"}
                /\ objects[i].start_line = 1
                /\ objects[i].sql_content =
                       SubSeq(content, 1,
                              LeastFrom(Occurrences(content, <<";">>),
                                        OutermostEnd(content)) + 1)

\* The first introducer of a body in s: the first "AS", or when there is
\* none the first "LANGUAGE"; or -1.
Introducer(s) ==
    IF Occurrences(s, W_AS) # {} THEN Least(Occurrences(s, W_AS))
    ELSE LeastFrom(Occurrences(s, W_LANGUAGE), 0)

\* The opening "$$" of the body of s, its closing "$$", and the first
\* semicolon after the closing one; each -1 when there is none.
OpeningDollars(s) ==
    IF Introducer(s) = -1 THEN -1
    ELSE LeastFrom(Occurrences(s, W_DOLLARS), Introducer(s))

ClosingDollars(s) ==
    IF OpeningDollars(s) = -1 THEN -1
    ELSE LeastFrom(Occurrences(s, W_DOLLARS), OpeningDollars(s) + 2)

SemicolonAfterBody(s) ==
    IF ClosingDollars(s) = -1 THEN -1
    ELSE LeastFrom(Occurrences(s, <<";">>), ClosingDollars(s) + 2)

\* s is a routine whose body is introduced by AS (or LANGUAGE), delimited by
\* "$$" ... "$$" and followed by a semicolon.
HasDollarBody(s) == RoutineAtStart(s) /\ SemicolonAfterBody(s) # -1

Q_Open ==
    <<"I","N","S","E","R","T"," ","I","N","T","O"," ","t"," ","V","A","L",
      "U","E","S"," ","(">>

\* 'a;b'
Q_Str ==
    <<"'","a",";","b","'">>

\* 'a\\';b'
Q_EscStr ==
    <<"'","a","\\","'",";","b","'">>

\* "c;'d"
Q_DStr ==
    <<"\"","c",";","'","d","\"">>

\* \\
Q_Back ==
    <<"\\">>

\* );\n
Q_Close ==
    <<")",";","\n">>

\* DROP VIEW v;\n
Q_Drop ==
    <<"D","R","O","P"," ","V","I","E","W"," ","v",";","\n">>

\* 'a;
Q_OpenStr ==
    <<"'","a",";">>

QuoteParts ==
    {Q_Str, Q_EscStr, Q_DStr, Q_Back, Q_Close, Q_Drop, Q_OpenStr, R_Semi}

\* The number of parts that follow the opening of the INSERT.
MaxQuoteParts == 3

InitQuote ==
    InitParse({Q_Open \o b : b \in Concats(QuoteParts, MaxQuoteParts)}, {<<1>>})

SpecQuote == InitQuote /\ [][ParseNext]_vars

\* No string is open.
NoQuote == "none"

\* The quote that is open at offset k of s (NoQuote when none is), for a scan
\* that is at offset i <= k with the quote q open: ' and " open a string when
\* none is open and close the string they opened, and a backslash inside a
\* string escapes the character after it.
RECURSIVE QuoteOpenAt(_, _, _, _)
QuoteOpenAt(s, i, q, k) ==
    IF i >= k THEN q
    ELSE IF q = NoQuote
    THEN QuoteOpenAt(s, i + 1, IF At(s, i) \in {"'", "\""} THEN At(s, i) ELSE q, k)
    ELSE IF At(s, i) = "\\" THEN (IF i + 1 >= k THEN q ELSE QuoteOpenAt(s, i + 2, q, k))
    ELSE QuoteOpenAt(s, i + 1, IF At(s, i) = q THEN NoQuote ELSE q, k)

\* The semicolons of s outside every string, and those inside one.
OuterSemicolons(s) ==
    {k \in Occurrences(s, <<";">>) : QuoteOpenAt(s, 0, NoQuote, k) = NoQuote}

\* A statement of a default category starts at offset 0 of s, a semicolon
\* lies inside a string literal of it, and a semicolon outside every string
\* follows.
HasQuotedSemicolon(s) ==
    /\ \E t \in SQLObjectType \ {"OTHER", "PROCEDURE", "FUNCTION"} :
           0 \in AnchorsOf(s, t)
    /\ OuterSemicolons(s) # {}
    /\ \E k \in Occurrences(s, <<";">>) \ OuterSemicolons(s) :
           k < Least(OuterSemicolons(s))

\* The record of objects extracted from the anchor at offset 0 of s, when it
\* was returned: the records of line 1 whose text starts s.
FromStart(objects, s) ==
    {i \in DOMAIN objects :
        /\ objects[i].start_line = 1
        /\ objects[i].sql_content # <<>>
        /\ Len(objects[i].sql_content) <= Len(s)
        /\ SubSeq(s, 1, Len(objects[i].sql_content)) = objects[i].sql_content}

\* C4: in a statement of a default category a semicolon inside a quoted
\* string never ends the statement: the text runs through the closing quote,
\* up to and including the first semicolon outside every quoted string.
C4_QuotedSemicolonNeverEnds ==
    \A objects \in Returned :
        HasQuotedSemicolon(content) =>
            \A i \in FromStart(objects, content) :
                objects[i].object_type \notin {"PROCEDURE", "FUNCTION"} =>
                    objects[i].sql_content =
                        SubSeq(content, 1, Least(OuterSemicolons(content)) + 1)

(***************************************************************************)
(* The same buffer parsed twice, in one program run or in two              *)
(***************************************************************************)

RepeatPieces == {S_CreateTable, S_DropView, S_Insert, S_Function, S_DropComment}

\* The keys of two calls in one run, and of two calls in two runs.
RepeatKeys == {<<1, 1>>, <<1, 2>>}

InitRepeat == InitParse(Concats(RepeatPieces, MaxPieces), RepeatKeys)

SpecRepeat == InitRepeat /\ [][ParseNext]_vars

\* C6: two calls of parse_content on the same content, in one run of the
\* program or in two, return the same list: as many records and, record by
\* record, the same name, category, lines, text and dependencies, placeholder
\* names included.
C6_SameResultTwice ==
    \A r1, r2 \in DOMAIN parsed :
        parsed[r1].done /\ parsed[r2].done =>
            parsed[r1].objects = parsed[r2].objects

(***************************************************************************)
(* Names: statements of the categories whose name is the first word after  *)
(* the anchor                                                              *)
(***************************************************************************)

\* DROP TABLE a\n
N_DropA ==
    <<"D","R","O","P"," ","T","A","B","L","E"," ","a","\n">>

\* CREATE TABLE b (x INT);\n
N_CreateB ==
    <<"C","R","E","A","T","E"," ","T","A","B","L","E"," ","b"," ","(","x",
      " ","I","N","T",")",";","\n">>

\* ALTER TABLE a SET COMMENT =\n'CREATE TABLE b';\n
N_AlterComment ==
    <<"A","L","T","E","R"," ","T","A","B","L","E"," ","a"," ","S","E","T",
      " ","C","O","M","M","E","N","T"," ","=","\n","'","C","R","E","A","T",
      "E"," ","T","A","B","L","E"," ","b","'",";","\n">>

\* create or replace view s.v_1 AS SELECT 1;\n
N_ReplaceView ==
    <<"c","r","e","a","t","e"," ","o","r"," ","r","e","p","l","a","c","e",
      " ","v","i","e","w"," ","s",".","v","_","1"," ","A","S"," ","S","E",
      "L","E","C","T"," ","1",";","\n">>

\* DROP STAGE st ;\n
N_DropStage ==
    <<"D","R","O","P"," ","S","T","A","G","E"," ","s","t"," ",";","\n">>

\* ALTER SEQUENCE q1 /* c */ SET x;\n
N_AlterSequence ==
    <<"A","L","T","E","R"," ","S","E","Q","U","E","N","C","E"," ","q","1",
      " ","/","*"," ","c"," ","*","/"," ","S","E","T"," ","x",";","\n">>

\* DROP PIPE p;\n
N_DropPipe ==
    <<"D","R","O","P"," ","P","I","P","E"," ","p",";","\n">>

\* DROP TABLE ;\n
N_DropNothing ==
    <<"D","R","O","P"," ","T","A","B","L","E"," ",";","\n">>

NamePieces ==
    {N_DropA, N_CreateB, N_AlterComment, N_ReplaceView, N_DropStage,
     N_AlterSequence, N_DropPipe, N_DropNothing}

InitName == InitParse(Concats(NamePieces, MaxPieces), {<<1>>})

SpecName == InitName /\ [][ParseNext]_vars

\* The categories whose name is the first word after the anchor.
FirstWordCategories == SQLObjectType \ {"OTHER", "PROCEDURE", "FUNCTION", "INSERT"}

\* The offset after the anchor of category t that starts s, or -1.
AnchorEndAtStart(s, t) ==
    IF \E k \in DOMAIN patterns(t) : PatternMatchEnd(s, 0, patterns(t)[k]) # -1
    THEN PatternMatchEnd(s, 0,
             patterns(t)[CHOOSE k \in DOMAIN patterns(t) :
                             PatternMatchEnd(s, 0, patterns(t)[k]) # -1])
    ELSE -1

\* The offset after the longest run of letters, digits, underscores and dots
\* that starts at offset a of s.
RunEnd(s, a) ==
    Least({k \in a..Len(s) : k = Len(s) \/ ~IsIdentRest(At(s, k))})

\* s begins with an anchor of category t, then an identifier, then
\* whitespace.
BeginsWithNamed(s, t) ==
    /\ AnchorEndAtStart(s, t) # -1
    /\ RunEnd(s, AnchorEndAtStart(s, t)) > AnchorEndAtStart(s, t)
    /\ RunEnd(s, AnchorEndAtStart(s, t)) < Len(s)
    /\ IsSpace(At(s, RunEnd(s, AnchorEndAtStart(s, t))))

\* C7: a statement that begins with an anchor of a category other than
\* function, procedure and insert, then an identifier n, then whitespace,
\* gives a record of that category whose name is n, whatever else its text
\* holds.
C7_NameIsFirstWord ==
    \A objects \in Returned :
        \A t \in FirstWordCategories :
            BeginsWithNamed(content, t) =>
                \A i \in FromStart(objects, content) :
                    /\ objects[i].object_type = t
                    /\ objects[i].name =
                           Slice(content, AnchorEndAtStart(content, t),
                                 RunEnd(content, AnchorEndAtStart(content, t)))

(***************************************************************************)
(* Dependencies: statements that reference other objects                   *)
(***************************************************************************)

\* CREATE TABLE fact_table AS SELECT 1;\n
D_Ctas ==
    <<"C","R","E","A","T","E"," ","T","A","B","L","E"," ","f","a","c","t",
      "_","t","a","b","l","e"," ","A","S"," ","S","E","L","E","C","T"," ",
      "1",";","\n">>

\* CREATE VIEW v AS SELECT * FROM a JOIN b ON a.id=b.id;\n
D_ViewJoin ==
    <<"C","R","E","A","T","E"," ","V","I","E","W"," ","v"," ","A","S"," ",
      "S","E","L","E","C","T"," ","*"," ","F","R","O","M"," ","a"," ","J",
      "O","I","N"," ","b"," ","O","N"," ","a",".","i","d","=","b",".","i",
      "d",";","\n">>

\* INSERT INTO t2 /* from c */ SELECT 1;\n
D_InsertComment ==
    <<"I","N","S","E","R","T"," ","I","N","T","O"," ","t","2"," ","/","*",
      " ","f","r","o","m"," ","c"," ","*","/"," ","S","E","L","E","C","T",
      " ","1",";","\n">>

\* ALTER TASK k AS UPDATE t SET x = 1;\n
D_Update ==
    <<"A","L","T","E","R"," ","T","A","S","K"," ","k"," ","A","S"," ","U",
      "P","D","A","T","E"," ","t"," ","S","E","T"," ","x"," ","="," ","1",
      ";","\n">>

\* DROP TABLE a; 
D_DropA ==
    <<"D","R","O","P"," ","T","A","B","L","E"," ","a",";"," ">>

\* DROP VIEW FROM 1;\n
D_NoIdent ==
    <<"D","R","O","P"," ","V","I","E","W"," ","F","R","O","M"," ","1",";",
      "\n">>

\* DROP STAGE portable y;\n
D_Portable ==
    <<"D","R","O","P"," ","S","T","A","G","E"," ","p","o","r","t","a","b",
      "l","e"," ","y",";","\n">>

DependencyPieces ==
    {D_Ctas, D_ViewJoin, D_InsertComment, D_Update, D_DropA, D_NoIdent,
     D_Portable}

InitDependencies == InitParse(Concats(DependencyPieces, MaxPieces), {<<1>>})

SpecDependencies == InitDependencies /\ [][ParseNext]_vars

\* The five words after which a dependency is looked for.
ReferenceWords ==
    { <<"F","R","O","M">>, <<"J","O","I","N">>, <<"U","P","D","A","T","E">>,
      <<"I","N","T","O">>, <<"T","A","B","L","E">> }

\* The offset of the identifier that follows the word w at offset i of s and
\* the whitespace after it, or -1: w stands at i in any letter case, one
\* whitespace character or more follows, then a letter or an underscore.
ReferenceAt(s, i, w) ==
    IF /\ StartsWithUpper(s, i, w)
       /\ i + Len(w) < Len(s)
       /\ IsSpace(At(s, i + Len(w)))
       /\ \E j \in (i + Len(w) + 1)..(Len(s) - 1) :
              /\ IsIdentStart(At(s, j))
              /\ \A k \in (i + Len(w))..(j - 1) : IsSpace(At(s, k))
    THEN CHOOSE j \in (i + Len(w) + 1)..(Len(s) - 1) :
              /\ IsIdentStart(At(s, j))
              /\ \A k \in (i + Len(w))..(j - 1) : IsSpace(At(s, k))
    ELSE -1

\* The offsets of s at which the word w is followed by an identifier.
ReferenceStarts(s, w) ==
    {i \in 0..(Len(s) - 1) : ReferenceAt(s, i, w) # -1}

\* The identifier that follows the word w at offset i of s.
ReferenceName(s, i, w) ==
    Slice(s, ReferenceAt(s, i, w), RunEnd(s, ReferenceAt(s, i, w)))

\* The identifiers that follow any occurrence of one of the five words.
EveryReference(s) ==
    {ReferenceName(s, i, w) : <<i, w>> \in
        {iw \in (0..(Len(s) - 1)) \X ReferenceWords :
            ReferenceAt(s, iw[1], iw[2]) # -1}}

\* The occurrences of w taken from left to right without overlap, from
\* offset n: the first occurrence at or after n, then those after the end of
\* its identifier.
RECURSIVE TakenStarts(_, _, _)
TakenStarts(s, w, n) ==
    IF LeastFrom(ReferenceStarts(s, w), n) = -1 THEN {}
    ELSE {LeastFrom(ReferenceStarts(s, w), n)}
         \cup TakenStarts(s, w,
                  RunEnd(s, ReferenceAt(s, LeastFrom(ReferenceStarts(s, w), n), w)))

\* The identifiers of the occurrences taken without overlap.
TakenReferences(s) ==
    UNION {{ReferenceName(s, i, w) : i \in TakenStarts(s, w, 0)} :
              w \in ReferenceWords}

\* C8 as stated: the dependencies of every record are exactly the
\* identifiers that directly follow any occurrence of FROM, JOIN, UPDATE, INTO
\* or TABLE and whitespace in the text of the record.
C8_EveryReference ==
    \A objects \in Returned :
        \A i \in DOMAIN objects :
            objects[i].dependencies = EveryReference(objects[i].sql_content)

\* C8, amended: the dependencies of every record are exactly the
\* identifiers of the occurrences of FROM, JOIN, UPDATE, INTO and TABLE (in
\* any letter case, inside a longer word or a comment too) that are followed
\* by whitespace and an identifier, each word taken from left to right
\* without overlap: an occurrence inside the identifier of the previous
\* occurrence of the same word is not taken.
C8_ReferencesWithoutOverlap ==
    \A objects \in Returned :
        \A i \in DOMAIN objects :
            objects[i].dependencies = TakenReferences(objects[i].sql_content)

\* C8's case: a record whose text has FROM a JOIN b, returned with several
\* records one of which has an occurrence that is not taken.
C8_Witness ==
    \E objects \in Returned :
        /\ \E i \in DOMAIN objects :
               {<<"a">>, <<"b">>} \subseteq objects[i].dependencies
        /\ \E i \in DOMAIN objects :
               EveryReference(objects[i].sql_content)
                   # TakenReferences(objects[i].sql_content)

(***************************************************************************)
(* parse_file and parse_folder                                             *)
(***************************************************************************)

\* A path of the file system is a missing path, a directory with its files
\* in the order os.listdir gives them, or something else that exists (a regular file).
PathKinds == {"missing", "dir", "file"}

\* s.endswith(suffix)
endswith(s, suffix) ==
    /\ Len(s) >= Len(suffix)
    /\ SubSeq(s, Len(s) - Len(suffix) + 1, Len(s)) = suffix

SqlExtension == <<".", "s", "q", "l">>

\* os.path.join(folder_path, sql_file)
path_join(folder_path, sql_file) == folder_path \o <<"/">> \o sql_file

\* parse_file: the records of the file's content; [] when open or read
\* raises.
parse_file(file, file_path, seed) ==
    IF file.readable THEN parse_content(file.content, file_path, seed)
    ELSE <<>>

\* result = {obj_type: [] for obj_type in SQLObjectType}
EmptyResult == [t \in SQLObjectType |-> <<>>]

\* A faulty merge, which puts the records of a file before those that are
\* already in the result.
PrependedByType(res, objects) ==
    [t \in SQLObjectType |->
        SelectSeq(objects, LAMBDA o : o.object_type = t) \o res[t]]

\* "for obj in objects: result[obj.object_type].append(obj)"
AppendedByType(res, objects) ==
    [t \in SQLObjectType |->
        res[t] \o SelectSeq(objects, LAMBDA o : o.object_type = t)]

\* A faulty loop, which stops at the first file that cannot be read.
RECURSIVE FolderLoopStopping(_, _, _, _, _)
FolderLoopStopping(sql_files, k, res, folder_path, seed) ==
    IF k > Len(sql_files) \/ ~sql_files[k].readable THEN res
    ELSE FolderLoopStopping(sql_files, k + 1,
             AppendedByType(res,
                 parse_file(sql_files[k],
                            path_join(folder_path, sql_files[k].name), seed)),
             folder_path, seed)

\* The loop of parse_folder over sql_files[k:], with the result so far.
RECURSIVE FolderLoop(_, _, _, _, _)
FolderLoop(sql_files, k, res, folder_path, seed) ==
    IF k > Len(sql_files) THEN res
    ELSE FolderLoop(sql_files, k + 1,
             AppendedByType(res,
                 parse_file(sql_files[k],
                            path_join(folder_path, sql_files[k].name), seed)),
             folder_path, seed)

\* sql_files = [f for f in os.listdir(folder_path) if f.endswith('.sql')]
SqlFilesOf(files) == SelectSeq(files, LAMBDA f : endswith(f.name, SqlExtension))

\* A faulty parse_folder, which returns a mapping without keys when the
\* folder has no script.
ResultOfFilesWithoutKeys(sql_files, folder_path, seed) ==
    IF sql_files = <<>> THEN <<>>
    ELSE FolderLoop(sql_files, 1, EmptyResult, folder_path, seed)

\* parse_folder once the directory is listed.
ResultOfFiles(sql_files, folder_path, seed) ==
    IF sql_files = <<>> THEN EmptyResult
    ELSE FolderLoop(sql_files, 1, EmptyResult, folder_path, seed)

\* parse_folder: what it returns, or that it raises (os.listdir raises
\* NotADirectoryError on a path that exists and is not a directory).
parse_folder(fd, folder_path, seed) ==
    IF fd.kind = "missing"
    THEN [done |-> TRUE, raised |-> FALSE, objects |-> EmptyResult]
    ELSE IF fd.kind = "file"
    THEN [done |-> TRUE, raised |-> TRUE, objects |-> <<>>]
    ELSE [done |-> TRUE, raised |-> FALSE,
          objects |-> ResultOfFiles(SqlFilesOf(fd.files), folder_path, seed)]

\* The folder_path given to parse_folder.
FolderPath == <<"d">>

\* parse_folder(FolderPath)
ParseFolder ==
    /\ ~result.done
    /\ result' = parse_folder(folder, FolderPath, hashseed[1])
    /\ UNCHANGED <<content, hashseed, parsed, folder, self, job_vars, converter_vars>>

\* parse_folder has not returned.
NotReturned == [done |-> FALSE, raised |-> FALSE, objects |-> <<>>]

\* The sequences without repetition of at most n members of S.
RECURSIVE Listings(_, _)
Listings(S, n) ==
    IF n = 0 THEN {<<>>}
    ELSE Listings(S, n - 1)
         \cup {Append(l, f) : <<l, f>> \in
                  {lf \in Listings(S, n - 1) \X S :
                      \A k \in DOMAIN lf[1] : lf[1][k] # lf[2]}}

\* The files a folder may hold: two scripts, an empty script, a file that is
\* not a script and a script that cannot be read.
FileLibrary ==
    { [name |-> <<"a", ".", "s", "q", "l">>, readable |-> TRUE,
       content |-> S_CreateTable \o S_Insert \o N_CreateB],
      [name |-> <<"b", ".", "s", "q", "l">>, readable |-> TRUE,
       content |-> S_DropView \o S_Blank \o S_CreateTable],
      [name |-> <<"c", ".", "s", "q", "l">>, readable |-> TRUE,
       content |-> <<>>],
      [name |-> <<"d", ".", "t", "x", "t">>, readable |-> TRUE,
       content |-> S_CreateTable],
      [name |-> <<"e", ".", "s", "q", "l">>, readable |-> FALSE,
       content |-> <<>>] }

\* The number of files of a folder.
MaxFiles == 3

InitFolder ==
    /\ content = <<>>
    /\ hashseed = <<1>>
    /\ parsed = <<>>
    /\ folder \in {[kind |-> "missing", files |-> <<>>],
                   [kind |-> "file", files |-> <<>>]}
                  \cup {[kind |-> "dir", files |-> l] :
                           l \in Listings(FileLibrary, MaxFiles)}
    /\ result = NotReturned
    /\ self = __init__
    /\ NoJobsCall
    /\ NoConversion

SpecFolder == InitFolder /\ [][ParseFolder]_vars

\* The name of f ends with ".sql".
IsScript(f) ==
    /\ Len(f.name) >= 4
    /\ SubSeq(f.name, Len(f.name) - 3, Len(f.name)) = <<".", "s", "q", "l">>

\* What parse_file returns for the file f of the folder.
FileRecords(f) == parse_file(f, path_join(FolderPath, f.name), hashseed[1])

\* The records that parse_file returns for the scripts among files, file
\* after file.
RECURSIVE RecordsInListingOrder(_)
RecordsInListingOrder(files) ==
    IF files = <<>> THEN <<>>
    ELSE (IF IsScript(Head(files)) THEN FileRecords(Head(files)) ELSE <<>>)
         \o RecordsInListingOrder(Tail(files))

\* The members of a list.
Members(list) == {list[n] : n \in DOMAIN list}

\* The places <<category, index>> of the result of parse_folder.
Places ==
    {ci \in SQLObjectType \X (1..20) : ci[2] \in DOMAIN result.objects[ci[1]]}

\* parse_folder has returned a mapping for a folder that is a directory.
FolderParsed == result.done /\ ~result.raised /\ folder.kind = "dir"

\* The result of parse_folder is the list `records` split by category.
SplitByCategory(records) ==
    /\ \A c \in SQLObjectType :
           result.objects[c] = SelectSeq(records, LAMBDA o : o.object_type = c)
    /\ \A o \in Members(records) :
           Cardinality({ci \in Places : result.objects[ci[1]][ci[2]] = o}) = 1

\* C9: for every category c, result[c] is the concatenation, over the
\* scripts of the folder in listing order, of the records of category c that
\* parse_file returns for the script, by ascending start_line; every record
\* returned by parse_file is in the result exactly once, under its own
\* category, and a file whose name does not end with ".sql" gives nothing.
C9_ResultIsConcatenation ==
    FolderParsed =>
        /\ SplitByCategory(RecordsInListingOrder(folder.files))
        /\ \A c \in SQLObjectType :
               \A i, j \in DOMAIN result.objects[c] :
                   /\ result.objects[c][i].object_type = c
                   /\ (i < j /\ result.objects[c][i].file_path
                                    = result.objects[c][j].file_path)
                          => result.objects[c][i].start_line
                                 < result.objects[c][j].start_line
        /\ \A k \in DOMAIN folder.files :
               ~IsScript(folder.files[k]) =>
                   \A ci \in Places :
                       result.objects[ci[1]][ci[2]].file_path
                           # path_join(FolderPath, folder.files[k].name)

\* C9's case: parse_folder has returned for a folder with two scripts that
\* both have tables, one of them two, and with a file that is not a script.
C9_Witness ==
    /\ FolderParsed
    /\ \E k \in DOMAIN folder.files : ~IsScript(folder.files[k])
    /\ \E i, j \in DOMAIN result.objects["TABLE"] :
           /\ i + 1 < j
           /\ result.objects["TABLE"][i].file_path
                  = result.objects["TABLE"][i + 1].file_path
           /\ result.objects["TABLE"][i].file_path
                  # result.objects["TABLE"][j].file_path

\* No script of the folder has a statement.
EmptyCorpus ==
    \A k \in DOMAIN folder.files :
        IsScript(folder.files[k]) => FileRecords(folder.files[k]) = <<>>

\* C10: when the folder is missing, has no script, has only scripts without
\* statements, or has statements, parse_folder raises nothing and returns a
\* mapping whose keys are exactly the 13 categories of SQLObjectType; when no
\* script has a statement every list of it is empty.
C10_AllCategoriesAreKeys ==
    (result.done /\ folder.kind \in {"missing", "dir"}) =>
        /\ ~result.raised
        /\ DOMAIN result.objects = SQLObjectType
        /\ Cardinality(DOMAIN result.objects) = 13
        /\ EmptyCorpus => \A c \in SQLObjectType : result.objects[c] = <<>>

\* C10's case: parse_folder has returned for a directory that has files and
\* no script among them.
C10_Witness ==
    /\ result.done
    /\ folder.kind = "dir"
    /\ folder.files # <<>>
    /\ \A k \in DOMAIN folder.files : ~IsScript(folder.files[k])
    /\ \A c \in SQLObjectType : result.objects[c] = <<>>

\* What parse_folder returns for a folder that holds the file f alone.
Alone(f) ==
    parse_folder([kind |-> "dir", files |-> <<f>>], FolderPath, hashseed[1]).objects

\* The results of the files of a list, each alone.
EachAlone(files) == [k \in DOMAIN files |-> Alone(files[k])]

\* The lists of category c of a list of results, one after the other.
RECURSIVE Chained(_, _)
Chained(parts, c) ==
    IF parts = <<>> THEN <<>>
    ELSE Head(parts)[c] \o Chained(Tail(parts), c)

\* The result of parse_folder is the chain of a list of results.
ResultIsChainOf(parts) ==
    \A c \in SQLObjectType : result.objects[c] = Chained(parts, c)

\* C11: a file whose reading raises gives no record (parse_file returns an
\* empty list for it) and parse_folder goes on with the other scripts: its
\* result is made of exactly the records that the other files give, each on
\* its own.
C11_FailedFileIsSkipped ==
    FolderParsed =>
        /\ \A k \in DOMAIN folder.files :
               ~folder.files[k].readable => FileRecords(folder.files[k]) = <<>>
        /\ ResultIsChainOf(EachAlone(SelectSeq(folder.files,
                                               LAMBDA f : f.readable)))

\* C11's case: parse_folder has returned for a folder where a script that
\* cannot be read is listed before a script with statements, and the records
\* of the latter are in the result.
C11_Witness ==
    /\ FolderParsed
    /\ \E k, j \in DOMAIN folder.files :
           /\ k < j
           /\ IsScript(folder.files[k]) /\ ~folder.files[k].readable
           /\ IsScript(folder.files[j]) /\ folder.files[j].readable
           /\ \E ci \in Places :
                  result.objects[ci[1]][ci[2]].file_path
                      = path_join(FolderPath, folder.files[j].name)

(***************************************************************************)
(* Line numbers and text of the returned records                           *)
(***************************************************************************)

\* C12: every record returned by parse_content has 1 <= start_line <=
\* end_line and a text that is not empty.
C12_LinesOrderedTextNotEmpty ==
    \A objects \in Returned :
        \A i \in DOMAIN objects :
            /\ 1 <= objects[i].start_line
            /\ objects[i].start_line <= objects[i].end_line
            /\ objects[i].sql_content # <<>>

\* C12's case: parse_content has returned a record on one line and a record
\* on several lines that does not start on the first line.
C12_Witness ==
    \E objects \in Returned :
        \E i, j \in DOMAIN objects :
            /\ objects[i].start_line = objects[i].end_line
            /\ objects[j].start_line > 1
            /\ objects[j].end_line > objects[j].start_line

\* The offsets at which the text of the record o starts in s: the anchors of
\* its category on line start_line where s holds the text.
TextStarts(s, o) ==
    {pos \in AnchorsOf(s, o.object_type) :
        /\ LineOf(s, pos) = o.start_line
        /\ pos + Len(o.sql_content) <= Len(s)
        /\ SubSeq(s, pos + 1, pos + Len(o.sql_content)) = o.sql_content}

\* C13: start_line is the number of the line that holds the first character
\* of the text of the record and end_line the number of the line that holds
\* its last character, also for a statement that runs to the end of a buffer
\* that ends with newlines.
C13_LinesAreThoseOfTheText ==
    \A objects \in Returned :
        \A i \in DOMAIN objects :
            \E pos \in TextStarts(content, objects[i]) :
                LineOf(content, pos + Len(objects[i].sql_content) - 1)
                    = objects[i].end_line

(***************************************************************************)
(* Matches whose end cannot be found                                       *)
(***************************************************************************)

\* CREATE PROCEDURE q();\n
U_PlainProcedure ==
    <<"C","R","E","A","T","E"," ","P","R","O","C","E","D","U","R","E"," ",
      "q","(",")",";","\n">>

UnresolvedPieces ==
    {S_OpenDollar, U_PlainProcedure, S_DropView, S_CreateTable, S_Function}

InitUnresolved == InitParse(Concats(UnresolvedPieces, MaxParts), {<<1>>})

SpecUnresolved == InitUnresolved /\ [][ParseNext]_vars

\* The resolver finds no end for the match of obj_type at offset pos of s.
Unresolved(s, obj_type, pos) == _find_object_end(s, pos, obj_type) = -1

\* The matches of s, as pairs <<type, offset>> in the order of discovery,
\* from the t-th type and the k-th pattern of it.
RECURSIVE MatchesFrom(_, _, _)
MatchesFrom(s, t, k) ==
    IF t > Len(PatternTypes) THEN <<>>
    ELSE IF k > Len(patterns(PatternTypes[t])) THEN MatchesFrom(s, t + 1, 1)
    ELSE [i \in DOMAIN finditer(s, patterns(PatternTypes[t])[k], 0) |->
             <<PatternTypes[t], finditer(s, patterns(PatternTypes[t])[k], 0)[i]>>]
         \o MatchesFrom(s, t, k + 1)

\* The record of each match of a list, none of which is unresolved.
RecordsOfMatches(s, matches, seed) ==
    [i \in DOMAIN matches |->
        _extract_complete_object(s, matches[i][2], matches[i][1],
                                 StartLine(s, matches[i][2]), NoPath, seed)]

\* What parse_content returns when the unresolved matches are taken out of
\* the list of matches beforehand.
WithoutUnresolved(s, matches, seed) ==
    _remove_overlapping_objects(SortByStartLine(
        RecordsOfMatches(s,
            SelectSeq(matches, LAMBDA m : ~Unresolved(s, m[1], m[2])), seed)))

\* C14: a match for which the resolver returns -1 gives no record, and the
\* call returns what the other matches give when the match is absent from the
\* list of matches.
C14_UnresolvedMatchIsSkipped ==
    \A r \in DOMAIN parsed :
        parsed[r].done =>
            /\ \A i \in DOMAIN parsed[r].objects :
                   \A pos \in TextStarts(content, parsed[r].objects[i]) :
                       ~Unresolved(content, parsed[r].objects[i].object_type, pos)
            /\ parsed[r].objects =
                   WithoutUnresolved(content, MatchesFrom(content, 1, 1), hashseed[r])

\* C14's case: a match of a procedure is unresolved, a later match of a
\* procedure is not, and the record of the later one has been returned.
C14_Witness ==
    \E r \in DOMAIN parsed :
        /\ parsed[r].done
        /\ \E p, q \in AnchorsOf(content, "PROCEDURE") :
               /\ p < q
               /\ Unresolved(content, "PROCEDURE", p)
               /\ \E i \in DOMAIN parsed[r].objects :
                      /\ parsed[r].objects[i].object_type = "PROCEDURE"
                      /\ q \in TextStarts(content, parsed[r].objects[i])

\* C15: every record returned by parse_content has a non-empty name, which is
\* the identifier of the object or a placeholder that begins with "unnamed_".
C15_NameNotEmpty ==
    \A objects \in Returned :
        \A i \in DOMAIN objects : objects[i].name # <<>>

(***************************************************************************)
(* The sequential jobs (service/sequential_job_service.py)                 *)
(***************************************************************************)

\* str.lower() on one character, and on a string.
Lower(c) == IF c \in UpperLetters THEN CHOOSE l \in LowerLetters : UpperOf[l] = c ELSE c
lower(s) == [i \in DOMAIN s |-> Lower(s[i])]

\* s.split(sep), from offset i.
RECURSIVE SplitOn(_, _, _)
SplitOn(s, sep, i) ==
    IF First(LAMBDA k : At(s, k) = sep, i, Len(s)) >= Len(s)
    THEN <<Slice(s, i, Len(s))>>
    ELSE <<Slice(s, i, First(LAMBDA k : At(s, k) = sep, i, Len(s)))>>
         \o SplitOn(s, sep, First(LAMBDA k : At(s, k) = sep, i, Len(s)) + 1)

\* ['tables', 'views'] and ['functions', 'procedures']
TablesViewsDirectories ==
    {<<"t","a","b","l","e","s">>, <<"v","i","e","w","s">>}
FunctionsProceduresDirectories ==
    {<<"f","u","n","c","t","i","o","n","s">>,
     <<"p","r","o","c","e","d","u","r","e","s">>}

\* A faulty choice of the key, which compares the directory as it is written.
BucketOfPartsAsWritten(path_parts) ==
    IF Len(path_parts) >= 2
    THEN IF path_parts[Len(path_parts) - 1] \in TablesViewsDirectories
         THEN "tables_views"
         ELSE IF path_parts[Len(path_parts) - 1] \in FunctionsProceduresDirectories
         THEN "functions_procedures"
         ELSE "others"
    ELSE "others"

\* The key of `categorized` to which the loop of _categorize_notebooks appends
\* path.
BucketOfParts(path_parts) ==
    IF Len(path_parts) >= 2
    THEN IF lower(path_parts[Len(path_parts) - 1]) \in TablesViewsDirectories
         THEN "tables_views"
         ELSE IF lower(path_parts[Len(path_parts) - 1])
                     \in FunctionsProceduresDirectories
         THEN "functions_procedures"
         ELSE "others"
    ELSE "others"

BucketOf(path) == BucketOfParts(SplitOn(path, "/", 0))

\* _categorize_notebooks
_categorize_notebooks(paths) ==
    [b \in {"tables_views", "functions_procedures", "others"} |->
        SelectSeq(paths, LAMBDA path : BucketOf(path) = b)]

\* The names of the two jobs (SequentialJobModel).
first_job_name == "lakebridge_tables_views_job"
second_job_name == "lakebridge_functions_procedures_job"

\* The job specification of _create_job: its name and the notebook of each
\* of its tasks.  The settings that are the same for every job are left out.
JobSpec(job_name, notebook_paths) ==
    [name |-> job_name, tasks |-> notebook_paths, depends_on |-> <<>>]

\* The job specification of _create_dependent_job.
DependentJobSpec(job_name, notebook_paths, depends_on_job_id) ==
    [name |-> job_name, tasks |-> notebook_paths,
     depends_on |-> <<[job_id |-> depends_on_job_id, outcome |-> "SUCCESS"]>>]

\* What _create_job and _create_dependent_job return when a command fails.
CommandError == [error |-> "CalledProcessError"]

\* The first statements of create_sequential_jobs, up to its first command.
Categorized(paths, categorized_paths) ==
    /\ job_results' = [first_job |-> EmptyDict, second_job |-> EmptyDict,
                       categorized_paths |-> categorized_paths]
    /\ pc' = IF categorized_paths["tables_views"] # <<>> THEN "first_create"
             ELSE IF categorized_paths["functions_procedures"] # <<>>
             THEN "single_create"
             ELSE "returned"

Call ==
    /\ pc = "called"
    /\ IF workspace_paths = <<>>
       THEN pc' = "returned" /\ job_results' = EmptyDict
       ELSE Categorized(workspace_paths, _categorize_notebooks(workspace_paths))
    /\ UNCHANGED <<workspace_paths, remote, waiting, parser_vars, converter_vars>>

\* A faulty continuation, which falls back on a job of the functions and
\* procedures alone when the first job gave no run_id.
AfterJobFallsBack(which, job_result) ==
    IF which = "first"
       /\ job_results.categorized_paths["functions_procedures"] # <<>>
    THEN IF "run_id" \in DOMAIN job_result THEN "second_create"
         ELSE "single_create"
    ELSE "returned"

\* Where create_sequential_jobs goes on once the job `which` has its result.
AfterJob(which, job_result) ==
    IF which = "first"
       /\ "run_id" \in DOMAIN job_result
       /\ job_results.categorized_paths["functions_procedures"] # <<>>
    THEN "second_create"
    ELSE "returned"

\* The key of `result` that holds the result of the job `which`.
ResultKey(which) == IF which = "first" THEN "first_job" ELSE "second_job"

\* The job `which` has its result.
Returns(which, job_result) ==
    /\ job_results' = [job_results EXCEPT ![ResultKey(which)] = job_result]
    /\ pc' = AfterJob(which, job_result)

\* The job specification that is sent for the job `which`.
SpecOf(which) ==
    IF which = "first"
    THEN JobSpec(first_job_name, job_results.categorized_paths["tables_views"])
    ELSE IF which = "single"
    THEN JobSpec(second_job_name,
                 job_results.categorized_paths["functions_procedures"])
    ELSE DependentJobSpec(second_job_name,
             job_results.categorized_paths["functions_procedures"],
             job_results.first_job.job_id)

\* The positions of the call at the two commands of the job `which`.
Creating(which) ==
    CASE which = "first" -> "first_create"
      [] which = "second" -> "second_create"
      [] which = "single" -> "single_create"
Running(which) ==
    CASE which = "first" -> "first_run"
      [] which = "second" -> "second_run"
      [] which = "single" -> "single_run"

\* "databricks jobs create": the service registers the job, whose identifier
\* is its rank, or the command fails.
JobsCreate(which) ==
    /\ pc = Creating(which)
    /\ \E ok \in BOOLEAN :
          IF ok
          THEN /\ remote' = [remote EXCEPT !.jobs = Append(@, SpecOf(which))]
               /\ pc' = Running(which)
               /\ UNCHANGED job_results
          ELSE /\ Returns(which, CommandError)
               /\ UNCHANGED remote
    /\ UNCHANGED <<workspace_paths, waiting, parser_vars, converter_vars>>

\* The dictionary returned for a job that was created and run.
Started(which, job_id, run_id) ==
    IF which = "second"
    THEN [job_id |-> job_id, run_id |-> run_id, status |-> "started",
          depends_on |-> job_results.first_job.job_id]
    ELSE [job_id |-> job_id, run_id |-> run_id, status |-> "started"]

\* "databricks jobs run-now <job_id>" for the job that was just created: the
\* service starts a run of it, whose identifier is its rank, or the command
\* fails.
JobsRunNow(which) ==
    /\ pc = Running(which)
    /\ \E ok \in BOOLEAN :
          IF ok
          THEN /\ remote' = [remote EXCEPT !.runs =
                                Append(@, [job_id |-> Len(remote.jobs),
                                           life_cycle_state |-> "RUNNING",
                                           result_state |-> "none"])]
               /\ Returns(which, Started(which, Len(remote.jobs),
                                         Len(remote.runs) + 1))
          ELSE /\ Returns(which, CommandError)
               /\ UNCHANGED remote
    /\ UNCHANGED <<workspace_paths, waiting, parser_vars, converter_vars>>

\* The service ends a run, with success or not.
RunEnds ==
    /\ \E r \in DOMAIN remote.runs, outcome \in {"SUCCESS", "FAILED"} :
          /\ remote.runs[r].life_cycle_state = "RUNNING"
          /\ remote' = [remote EXCEPT !.runs[r] =
                           [@ EXCEPT !.life_cycle_state = "TERMINATED",
                                     !.result_state = outcome]]
    /\ UNCHANGED <<workspace_paths, pc, job_results, waiting, parser_vars, converter_vars>>

\* job_results.get(key, {}).get("run_id"): the job under `key` was started.
HasRunId(jobs, key) ==
    /\ key \in DOMAIN jobs
    /\ "run_id" \in DOMAIN jobs[key]

\* _get_job_status(run_id): the life-cycle state that "databricks jobs get"
\* answers, or "error" when the command fails.
_get_job_status(run_id, ok) ==
    IF ok THEN remote.runs[run_id].life_cycle_state ELSE "error"

\* monitor_jobs(job_results); ok1 and ok2 tell whether its commands succeed.
monitor_jobs(jobs, ok1, ok2) ==
    [first_job_status |->
        IF HasRunId(jobs, "first_job")
        THEN _get_job_status(jobs["first_job"].run_id, ok1)
        ELSE "unknown",
     second_job_status |->
        IF HasRunId(jobs, "second_job")
        THEN _get_job_status(jobs["second_job"].run_id, ok2)
        ELSE "unknown"]

\* The states that wait_for_completion takes for the end of a run.
CompleteStates == {"TERMINATED", "SKIPPED", "INTERNAL_ERROR"}

first_complete(status) == status["first_job_status"] \in CompleteStates
second_complete(status) == status["second_job_status"] \in CompleteStates

\* not job_results.get("second_job")
NoSecondJob(jobs) ==
    \/ "second_job" \notin DOMAIN jobs
    \/ DOMAIN jobs["second_job"] = {}

\* The test of wait_for_completion that ends its loop before the timeout.
AllComplete(jobs, status) ==
    first_complete(status) /\ (NoSecondJob(jobs) \/ second_complete(status))

\* The number of rounds of wait_for_completion that fit in its timeout.
MaxRounds == 2

\* The caller of create_sequential_jobs asks for the monitoring, which it
\* does only when one of the two jobs was started.
WaitForCompletion ==
    /\ pc = "returned"
    /\ HasRunId(job_results, "first_job") \/ HasRunId(job_results, "second_job")
    /\ pc' = "waiting"
    /\ waiting' = NotWaiting
    /\ UNCHANGED <<workspace_paths, remote, job_results, parser_vars, converter_vars>>

\* One round of the loop of wait_for_completion: it asks for the states, and
\* returns them or sleeps.
WaitRound ==
    /\ pc = "waiting"
    /\ waiting.round < MaxRounds
    /\ \E ok1, ok2 \in BOOLEAN :
          LET status == monitor_jobs(job_results, ok1, ok2)
          IN  /\ waiting' = [waiting EXCEPT !.round = @ + 1, !.status = status]
              /\ pc' = IF AllComplete(job_results, status)
                       THEN "waited" ELSE "waiting"
    /\ UNCHANGED <<workspace_paths, remote, job_results, parser_vars, converter_vars>>

\* The timeout of wait_for_completion has elapsed: it returns the states it
\* is given then.
WaitTimeout ==
    /\ pc = "waiting"
    /\ waiting.round = MaxRounds
    /\ \E ok1, ok2 \in BOOLEAN :
          waiting' = [waiting EXCEPT !.timed_out = TRUE,
                         !.status = monitor_jobs(job_results, ok1, ok2)]
    /\ pc' = "waited"
    /\ UNCHANGED <<workspace_paths, remote, job_results, parser_vars, converter_vars>>

\* /n/tables/a
J_Table ==
    <<"/","n","/","t","a","b","l","e","s","/","a">>

\* /n/Views/v
J_View ==
    <<"/","n","/","V","i","e","w","s","/","v">>

\* /n/functions/f
J_Function ==
    <<"/","n","/","f","u","n","c","t","i","o","n","s","/","f">>

\* /n/procedures/p
J_Procedure ==
    <<"/","n","/","p","r","o","c","e","d","u","r","e","s","/","p">>

\* /n/stages/s
J_Stage ==
    <<"/","n","/","s","t","a","g","e","s","/","s">>

\* x
J_Bare ==
    <<"x">>


NotebookPaths == {J_Table, J_View, J_Function, J_Procedure, J_Stage, J_Bare}

\* The number of notebooks handed to create_sequential_jobs.
MaxNotebooks == 2

InitJobs ==
    /\ content = <<>>
    /\ hashseed = <<1>>
    /\ parsed = <<>>
    /\ folder = NoFolder
    /\ result = NotCalled
    /\ self = __init__
    /\ workspace_paths \in Listings(NotebookPaths, MaxNotebooks)
    /\ pc = "called"
    /\ remote = NoRemote
    /\ job_results = EmptyDict
    /\ waiting = NotWaiting
    /\ NoConversion

NextJobs ==
    \/ Call
    \/ \E which \in {"first", "second", "single"} :
          JobsCreate(which) \/ JobsRunNow(which)
    \/ RunEnds
    \/ WaitForCompletion
    \/ WaitRound
    \/ WaitTimeout

SpecJobs == InitJobs /\ [][NextJobs]_vars

\* The runs of the job whose identifier is job_id.
RunsOf(job_id) == {r \in DOMAIN remote.runs : remote.runs[r].job_id = job_id}

\* C16: when there are notebooks of tables or views and notebooks of
\* functions or procedures, no run of the job of the functions and procedures
\* exists before the run of the job of the tables and views has ended with
\* success.
C16_SecondRunsAfterFirstSucceeds ==
    \A j \in DOMAIN remote.jobs :
        (remote.jobs[j].name = second_job_name
         /\ \E i \in DOMAIN remote.jobs : remote.jobs[i].name = first_job_name)
        => (RunsOf(j) # {} =>
               \E i \in DOMAIN remote.jobs :
                   /\ remote.jobs[i].name = first_job_name
                   /\ \E r \in RunsOf(i) :
                          remote.runs[r].result_state = "SUCCESS")

(***************************************************************************)
(* Calls on one shared parser instance                                     *)
(***************************************************************************)

\* A faulty parse_file, which empties self.compiled_patterns once it has
\* parsed the file.
ParseFileClearing(k) ==
    /\ ~parsed[k + 1].done
    /\ parsed' = [parsed EXCEPT ![k + 1] =
                     [done    |-> TRUE,
                      objects |-> parse_file(folder.files[k],
                                      path_join(FolderPath, folder.files[k].name),
                                      hashseed[1])]]
    /\ self' = [self EXCEPT !.compiled_patterns = <<>>]
    /\ UNCHANGED <<content, hashseed, folder, result, job_vars, converter_vars>>

\* parse_file on the k-th file of the folder, by the instance that also
\* serves the other calls; its result is kept as that of call k + 1.
ParseFile(k) ==
    /\ ~parsed[k + 1].done
    /\ parsed' = [parsed EXCEPT ![k + 1] =
                     [done    |-> TRUE,
                      objects |-> parse_file(folder.files[k],
                                      path_join(FolderPath, folder.files[k].name),
                                      hashseed[1])]]
    /\ UNCHANGED <<content, hashseed, folder, result, self, job_vars, converter_vars>>

\* The files handed to parse_file: two scripts and one that cannot be read.
SharedFiles == {f \in FileLibrary : IsScript(f) /\ (f.readable => f.content # <<>>)}

\* One instance, in one program run, serves parse_content(content) and
\* parse_file of each file of the folder, in any order.
InitShared ==
    /\ content = S_DropComment \o S_Function
    /\ hashseed = <<1>>
    /\ folder \in {[kind |-> "dir", files |-> l] :
                      l \in Listings(SharedFiles, MaxFiles)}
    /\ parsed = [r \in 1..(Len(folder.files) + 1) |-> NotCalled]
    /\ result = NotReturned
    /\ self = __init__
    /\ NoJobsCall
    /\ NoConversion

NextShared ==
    \/ ParseContent(1)
    \/ \E k \in DOMAIN folder.files : ParseFile(k)

SpecShared == InitShared /\ [][NextShared]_vars

\* Every call that has returned has returned what it returns now.
SameAsAlone ==
    /\ parsed[1].done =>
           parsed[1].objects = parse_content(content, NoPath, hashseed[1])
    /\ \A k \in DOMAIN folder.files :
           parsed[k + 1].done => parsed[k + 1].objects = FileRecords(folder.files[k])

HasUnterminatedQuote(s) ==
    /\ \E t \in SQLObjectType \ {"OTHER", "PROCEDURE", "FUNCTION"} :
           0 \in AnchorsOf(s, t)
    /\ OuterSemicolons(s) = {}
    /\ QuoteOpenAt(s, 0, NoQuote, Len(s)) # NoQuote

\* C18: a statement with a quote that is opened and never closed before the
\* end of the buffer gives no record.
C18_UnterminatedGivesNoRecord ==
    \A objects \in Returned :
        HasUnterminatedQuote(content) => FromStart(objects, content) = {}

\* C19: _find_semicolon_end(content, 0) is the offset after the first
\* semicolon that lies outside every quoted string, a backslash being an
\* escape inside a string only; or len(content) when there is none.
C19_FirstSemicolonOutsideStrings ==
    \A objects \in Returned :
        _find_semicolon_end(content, 0) =
            IF OuterSemicolons(content) = {} THEN Len(content)
            ELSE Least(OuterSemicolons(content)) + 1

(***************************************************************************)
(* The returned list as a greedy filter of the candidates                  *)
(***************************************************************************)

\* The candidates of s: the record of each match that is not unresolved, in
\* the order of discovery.
Candidates(s, seed) ==
    RecordsOfMatches(s, SelectSeq(MatchesFrom(s, 1, 1),
                                  LAMBDA m : ~Unresolved(s, m[1], m[2])), seed)

\* The place of the i-th candidate when the candidates are put in ascending
\* order of start_line, ties in the order of discovery.
PlaceOf(cands, i) ==
    1 + Cardinality({j \in DOMAIN cands :
            \/ cands[j].start_line < cands[i].start_line
            \/ cands[j].start_line = cands[i].start_line /\ j < i})

\* The candidates in that order.
Ascending(cands) ==
    [p \in DOMAIN cands |-> cands[CHOOSE i \in DOMAIN cands : PlaceOf(cands, i) = p]]

\* The ranges of lines of two records have a line in common.
ShareLine(c, e) == c.start_line <= e.end_line /\ c.end_line >= e.start_line

\* K is the set of the places of `scanned` that a greedy scan keeps: a place
\* is kept when its record shares no line with the record of a place kept
\* before it.
IsGreedyChoice(scanned, K) ==
    \A k \in DOMAIN scanned :
        k \in K <=> \A e \in K : e < k => ~ShareLine(scanned[k], scanned[e])

\* The members of list at the places of K, in the order of the list.
Restricted(list, K) == SelectSeq([k \in DOMAIN list |-> <<k, list[k]>>], LAMBDA x : x[1] \in K)

\* objects is the greedy filter of scanned.
IsGreedyFilter(scanned, objects) ==
    \E K \in SUBSET DOMAIN scanned :
        /\ IsGreedyChoice(scanned, K)
        /\ scanned # <<>> => 1 \in K
        /\ objects = [n \in DOMAIN Restricted(scanned, K) |-> Restricted(scanned, K)[n][2]]
        /\ \A k \in DOMAIN scanned \ K :
               \E e \in K : ShareLine(scanned[k], scanned[e])

\* C20: the list returned by parse_content is the greedy filter of the
\* candidates scanned in ascending order of start_line, ties in the order of
\* discovery: the first is kept, a later one is kept iff it shares no line
\* with a record that is kept already, the kept records stay in that order
\* and every other candidate shares a line with a kept record.
C20_ReturnedIsGreedyFilter ==
    \A r \in DOMAIN parsed :
        parsed[r].done =>
            IsGreedyFilter(Ascending(Candidates(content, hashseed[r])),
                           parsed[r].objects)

\* C20's case: of three candidates or more, one that was discovered later
\* than another comes before it in the returned list, and one is discarded.
C20_Witness ==
    \E r \in DOMAIN parsed :
        /\ parsed[r].done
        /\ Len(Candidates(content, hashseed[r])) >= 3
        /\ Len(parsed[r].objects) >= 2
        /\ Len(parsed[r].objects) < Len(Candidates(content, hashseed[r]))
        /\ parsed[r].objects[1] # Candidates(content, hashseed[r])[1]

(***************************************************************************)
(* Which of two candidates with lines in common is kept                    *)
(***************************************************************************)

\* Of two different candidates with a line in common, the one discovered
\* later is not in objects.
LaterDiscoveredDiscarded(cands, objects) ==
    \A i, j \in DOMAIN cands :
        (i < j /\ cands[i] # cands[j] /\ ShareLine(cands[i], cands[j]))
        => \A n \in DOMAIN objects : objects[n] # cands[j]

FirstOfLineKept(cands, objects) ==
    \A n \in DOMAIN objects :
        /\ \E i \in DOMAIN cands :
               /\ cands[i] = objects[n]
               /\ \A j \in DOMAIN cands :
                      cands[j].start_line = objects[n].start_line => i <= j
        /\ \A m \in DOMAIN objects :
               m # n => ~ShareLine(objects[m], objects[n])

EarlierLineWon(cands, objects) ==
    \E i, j \in DOMAIN cands :
        /\ i < j
        /\ cands[j].start_line < cands[i].start_line
        /\ ShareLine(cands[i], cands[j])
        /\ \E n \in DOMAIN objects : objects[n] = cands[j]
        /\ \A n \in DOMAIN objects : objects[n] # cands[i]

F_TwoWords ==
    <<"C","R","E","A","T","E"," ","F","U","N","C","T","I","O","N"," ","m",
      "y"," ","f","u","n","c","(","a",")"," ","A","S"," ","$","$"," ","1",
      " ","$","$",";","\n">>

\* CREATE PROCEDURE s.p (x) AS $$ 1 $$;\n
F_Qualified ==
    <<"C","R","E","A","T","E"," ","P","R","O","C","E","D","U","R","E"," ",
      "s",".","p"," ","(","x",")"," ","A","S"," ","$","$"," ","1"," ","$",
      "$",";","\n">>

\* INSERT INTO t(a) VALUES (1);\n
F_InsertColumns ==
    <<"I","N","S","E","R","T"," ","I","N","T","O"," ","t","(","a",")"," ",
      "V","A","L","U","E","S"," ","(","1",")",";","\n">>

\* INSERT INTO "t-1" VALUES (1);\n
F_InsertQuoted ==
    <<"I","N","S","E","R","T"," ","I","N","T","O"," ","\"","t","-","1","\"",
      " ","V","A","L","U","E","S"," ","(","1",")",";","\n">>

\* INSERT INTO t SELECT 1;\n
F_InsertSelect ==
    <<"I","N","S","E","R","T"," ","I","N","T","O"," ","t"," ","S","E","L",
      "E","C","T"," ","1",";","\n">>

\* INSERT INTO /* x */ t2 VALUES (1);\n
F_InsertComment ==
    <<"I","N","S","E","R","T"," ","I","N","T","O"," ","/","*"," ","x"," ",
      "*","/"," ","t","2"," ","V","A","L","U","E","S"," ","(","1",")",";",
      "\n">>

\* CREATE PROCEDURE ();\n
F_NoName ==
    <<"C","R","E","A","T","E"," ","P","R","O","C","E","D","U","R","E"," ",
      "(",")",";","\n">>


CutPieces ==
    {F_TwoWords, F_Qualified, F_InsertColumns, F_InsertQuoted, F_InsertSelect,
     F_InsertComment, F_NoName}

InitCut == InitParse(Concats(CutPieces, MaxPieces), {<<1>>})

SpecCut == InitCut /\ [][ParseNext]_vars

\* The categories whose name is cut at a parenthesis or at VALUES.
CutCategories == {"FUNCTION", "PROCEDURE", "INSERT"}

\* The statement without its comments, its runs of whitespace collapsed.
Cleaned(text) ==
    join(split(StripBlockComments(StripLineComments(text, 0), 0), 0))

\* The cleaned text c holds one anchor of category t, at its start.
OneAnchor(c, t) == AnchorsOf(c, t) = {0}

\* What follows the anchor of category t in the cleaned text c.
AfterAnchor(c, t) == strip(Slice(c, AnchorEndAtStart(c, t), Len(c)))

\* Where the text after the anchor is cut: at the first "(" for a function
\* or a procedure, at the first of "VALUES" and "(" for an insert, at its
\* end when there is none.
CutAt(rest, t) ==
    IF (IF t = "INSERT"
        THEN Occurrences(rest, W_VALUES) \cup Occurrences(rest, <<"(">>)
        ELSE Occurrences(rest, <<"(">>)) = {}
    THEN Len(rest)
    ELSE Least(IF t = "INSERT"
               THEN Occurrences(rest, W_VALUES) \cup Occurrences(rest, <<"(">>)
               ELSE Occurrences(rest, <<"(">>))

\* The text after the anchor, up to the cut.
BeforeCut(rest, t) == Slice(rest, 0, CutAt(rest, t))

\* C22 as stated: the name of a function, procedure or insert record is the
\* whole text between the anchor and the cut, without the characters that
\* are not letters, digits, underscores or dots.
C22_NameIsAllBeforeCut ==
    \A objects \in Returned :
        \A i \in DOMAIN objects :
            (objects[i].object_type \in CutCategories
             /\ OneAnchor(Cleaned(objects[i].sql_content), objects[i].object_type))
            => objects[i].name =
                   KeepNameChars(BeforeCut(
                       AfterAnchor(Cleaned(objects[i].sql_content),
                                   objects[i].object_type),
                       objects[i].object_type))

\* name begins with "unnamed_".
IsSynthetic(name) ==
    Len(name) >= 8 /\ SubSeq(name, 1, 8) = <<"u","n","n","a","m","e","d","_">>

\* The name that the words before the cut give: the first word without the
\* characters that are not letters, digits, underscores or dots, or a
\* placeholder when there is no word.
IsNameOfWords(name, words) ==
    IF words = <<>> THEN IsSynthetic(name) ELSE name = KeepNameChars(words[1])

\* C22, amended: the name of a function, procedure or insert record is the
\* first word of the text between the anchor and the cut, without the
\* characters that are not letters, digits, underscores or dots; when there
\* is no word before the cut the name is a placeholder.
C22_NameIsFirstWordBeforeCut ==
    \A objects \in Returned :
        \A i \in DOMAIN objects :
            (objects[i].object_type \in CutCategories
             /\ OneAnchor(Cleaned(objects[i].sql_content), objects[i].object_type))
            => IsNameOfWords(objects[i].name,
                   split(BeforeCut(
                       AfterAnchor(Cleaned(objects[i].sql_content),
                                   objects[i].object_type),
                       objects[i].object_type), 0))

\* C22's case: a function whose text before the parenthesis has two words,
\* and an insert with a column list, have been returned with their names.
C22_Witness ==
    \E objects \in Returned :
        /\ \E i \in DOMAIN objects :
               /\ objects[i].object_type = "FUNCTION"
               /\ objects[i].name = <<"m", "y">>
               /\ OneAnchor(Cleaned(objects[i].sql_content), "FUNCTION")
        /\ \E i \in DOMAIN objects :
               /\ objects[i].object_type = "INSERT"
               /\ objects[i].name = <<"t">>
               /\ Occurrences(objects[i].sql_content, <<"t", "(", "a", ")">>) # {}

(***************************************************************************)
(* The wait for the end of the jobs.                                       *)
(***************************************************************************)

\* The jobs of job_results that were started.
StartedKeys == {key \in {"first_job", "second_job"} : HasRunId(job_results, key)}

\* The state that `status` gives for the job under `key`.
StatusOf(status, key) ==
    IF key = "first_job" THEN status["first_job_status"]
    ELSE status["second_job_status"]

\* Every started job is in a state that ends a run, by the states `status`.
StartedAreComplete(status) ==
    \A key \in StartedKeys : StatusOf(status, key) \in CompleteStates

\* C23: wait_for_completion returns in the first round whose states show
\* every started job ended: it does not go on waiting after such a round, and
\* before the timeout it returns only after such a round.
C23_ReturnsWhenStartedJobsEnd ==
    /\ (pc = "waiting" /\ waiting.round > 0)
          => ~StartedAreComplete(waiting.status)
    /\ (pc = "waited" /\ ~waiting.timed_out)
          => StartedAreComplete(waiting.status)

(***************************************************************************)
(* Routines: where the search for the body looks                           *)
(***************************************************************************)

\* DROP FUNCTION f;\n
L_DropFunction ==
    <<"D","R","O","P"," ","F","U","N","C","T","I","O","N"," ","f",";","\n">>

\* drop procedure p;\n
L_DropProcedure ==
    <<"d","r","o","p"," ","p","r","o","c","e","d","u","r","e"," ","p",";",
      "\n">>

\* CREATE FUNCTION g() AS $$ 1; $$;\n
L_CreateAs ==
    <<"C","R","E","A","T","E"," ","F","U","N","C","T","I","O","N"," ","g",
      "(",")"," ","A","S"," ","$","$"," ","1",";"," ","$","$",";","\n">>

\* CREATE PROCEDURE q() LANGUAGE sql $$ 2 $$;\n
L_Language ==
    <<"C","R","E","A","T","E"," ","P","R","O","C","E","D","U","R","E"," ",
      "q","(",")"," ","L","A","N","G","U","A","G","E"," ","s","q","l"," ",
      "$","$"," ","2"," ","$","$",";","\n">>

\* create function h() as $$ 'a;' b; c $$;\n
L_LowerAs ==
    <<"c","r","e","a","t","e"," ","f","u","n","c","t","i","o","n"," ","h",
      "(",")"," ","a","s"," ","$","$"," ","'","a",";","'"," ","b",";"," ",
      "c"," ","$","$",";","\n">>

\* Create Procedure r() language sql $$ d; $$;\n
L_LowerLanguage ==
    <<"C","r","e","a","t","e"," ","P","r","o","c","e","d","u","r","e"," ",
      "r","(",")"," ","l","a","n","g","u","a","g","e"," ","s","q","l"," ",
      "$","$"," ","d",";"," ","$","$",";","\n">>

\* CREATE TABLE t (a INT);\n
L_Table ==
    <<"C","R","E","A","T","E"," ","T","A","B","L","E"," ","t"," ","(","a",
      " ","I","N","T",")",";","\n">>

BodyPieces ==
    {L_DropFunction, L_DropProcedure, L_CreateAs, L_Language, L_LowerAs,
     L_LowerLanguage, L_Table}

InitBody == InitParse(Concats(BodyPieces, MaxPieces), {<<1>>})

SpecBody == InitBody /\ [][ParseNext]_vars

\* The matches of the routine categories in a list of matches.
RoutinesOf(matches) ==
    {matches[i] : i \in {j \in DOMAIN matches :
        matches[j][1] \in {"PROCEDURE", "FUNCTION"}}}

\* The matches of the routine categories in s, as pairs <<type, offset>>.
RoutineMatches(s) == RoutinesOf(MatchesFrom(s, 1, 1))

\* The first introducer of a body at or after offset p of s: the first "AS",
\* or when there is none the first "LANGUAGE"; or -1.
IntroducerFrom(s, p) ==
    IF LeastFrom(Occurrences(s, W_AS), p) # -1
    THEN LeastFrom(Occurrences(s, W_AS), p)
    ELSE LeastFrom(Occurrences(s, W_LANGUAGE), p)

\* The closing "$$" of the first "$$" ... "$$" pair after that introducer,
\* or -1.
ClosingDollarsFrom(s, p) ==
    IF IntroducerFrom(s, p) = -1
       \/ LeastFrom(Occurrences(s, W_DOLLARS), IntroducerFrom(s, p)) = -1
    THEN -1
    ELSE LeastFrom(Occurrences(s, W_DOLLARS),
                   LeastFrom(Occurrences(s, W_DOLLARS), IntroducerFrom(s, p)) + 2)

\* The first semicolon after that closing "$$", or -1.
BodySemicolonFrom(s, p) ==
    IF ClosingDollarsFrom(s, p) = -1 THEN -1
    ELSE LeastFrom(Occurrences(s, <<";">>), ClosingDollarsFrom(s, p) + 2)

\* The candidate of the match of obj_type at offset p of s has the text
\* s[p:end_pos], stripped.
CandidateUpTo(cands, s, obj_type, p, end_pos) ==
    \E i \in DOMAIN cands :
        /\ cands[i].object_type = obj_type
        /\ cands[i].start_line = LineOf(s, p)
        /\ cands[i].sql_content = strip(Slice(s, p, end_pos))

\* The first semicolon of s, or -1.
FirstSemicolon(s) == LeastFrom(Occurrences(s, <<";">>), 0)

\* Each routine match of s that is followed by an introducer, a "$$" ... "$$"
\* pair and a semicolon has a candidate in cands that runs to that semicolon;
\* when the match starts s, that candidate is the first record of objects.
RunsThroughBody(cands, s, objects) ==
    \A m \in RoutineMatches(s) :
        BodySemicolonFrom(s, m[2]) # -1 =>
            /\ CandidateUpTo(cands, s, m[1], m[2], BodySemicolonFrom(s, m[2]) + 1)
            /\ m[2] = 0 =>
                  /\ objects # <<>>
                  /\ objects[1].sql_content =
                        strip(Slice(s, 0, BodySemicolonFrom(s, 0) + 1))

\* C25: for an anchor of a function or procedure, when the buffer from the
\* anchor on holds an "AS" (or, without any "AS", a "LANGUAGE") followed
\* anywhere by a "$$" ... "$$" pair and a semicolon, the record of the anchor
\* runs to the first semicolon after the closing "$$", also when the
\* statement of the anchor ended at an earlier semicolon; when the anchor
\* starts the buffer that record is the first one returned.
C25_BodySearchIsUnbounded ==
    \A r \in DOMAIN parsed :
        parsed[r].done =>
            RunsThroughBody(Candidates(content, hashseed[r]), content,
                            parsed[r].objects)

\* C25's case: the statement of a routine anchor ends at a semicolon before
\* the introducer of a body that belongs to a later statement, and the
\* record returned for the anchor runs through that body.
C25_Witness ==
    \E r \in DOMAIN parsed :
        /\ parsed[r].done
        /\ <<"FUNCTION", 0>> \in RoutineMatches(content)
        /\ FirstSemicolon(content) < IntroducerFrom(content, 0)
        /\ BodySemicolonFrom(content, 0) # -1
        /\ Len(parsed[r].objects) = 1
        /\ Len(parsed[r].objects[1].sql_content)
              = BodySemicolonFrom(content, 0) + 1

\* The semicolons at or after offset p of s that lie outside every string
\* opened at or after p.
OuterSemicolonsFrom(s, p) ==
    {k \in Occurrences(s, <<";">>) :
        k >= p /\ QuoteOpenAt(s, p, NoQuote, k) = NoQuote}

\* Where the default scan from offset p of s ends: after the first semicolon
\* outside every string, or at the end of s.
DefaultEndFrom(s, p) ==
    IF OuterSemicolonsFrom(s, p) = {} THEN Len(s)
    ELSE Least(OuterSemicolonsFrom(s, p)) + 1

\* An introducer of a body in lower or mixed case, and none in upper case,
\* at or after offset p of s.
OnlyLowerIntroducerFrom(s, p) ==
    /\ IntroducerFrom(s, p) = -1
    /\ \E i \in p..(Len(s) - 1) :
          StartsWithUpper(s, i, W_AS) \/ StartsWithUpper(s, i, W_LANGUAGE)

\* Each routine match of s that no upper-case introducer follows has a
\* candidate in cands that ends where the default scan ends.
EndsAtDefault(cands, s) ==
    \A m \in RoutineMatches(s) :
        IntroducerFrom(s, m[2]) = -1 =>
            CandidateUpTo(cands, s, m[1], m[2], DefaultEndFrom(s, m[2]))

\* C27: for an anchor of a function or procedure after which the buffer holds
\* no upper-case "AS" and no upper-case "LANGUAGE", the record of the anchor
\* ends where the default scan ends, after the first semicolon outside
\* quotes: a body introduced in lower case is cut at its first such
\* semicolon.
C27_LowerCaseIntroducerIsNotFound ==
    \A r \in DOMAIN parsed :
        parsed[r].done =>
            EndsAtDefault(Candidates(content, hashseed[r]), content)

\* C27's case: a routine whose body is introduced by a lower-case "as" and
\* holds a semicolon was parsed, and the record returned for it ends at that
\* semicolon, before the closing "$$".
C27_Witness ==
    \E r \in DOMAIN parsed :
        /\ parsed[r].done
        /\ OnlyLowerIntroducerFrom(content, 0)
        /\ <<"FUNCTION", 0>> \in RoutineMatches(content)
        /\ Cardinality(Occurrences(content, W_DOLLARS)) = 2
        /\ parsed[r].objects # <<>>
        /\ parsed[r].objects[1].sql_content =
              Slice(content, 0, DefaultEndFrom(content, 0))
        /\ \A d \in Occurrences(content, W_DOLLARS) \ {Least(Occurrences(content, W_DOLLARS))} :
              DefaultEndFrom(content, 0) <= d

(***************************************************************************)
(* Statements that share a line                                            *)
(***************************************************************************)

\* x is a record of the list objects.
IsReturned(objects, x) == \E n \in DOMAIN objects : objects[n] = x

\* Of two candidates of the sorted list that share a line, the two are never
\* both in objects; the one that comes first is in objects, and the other is
\* not, unless the first shares a line with a record of objects that comes
\* before it.
FirstOfSharedLineKept(sorted, objects) ==
    \A i, j \in DOMAIN sorted :
        (i < j /\ sorted[i] # sorted[j] /\ ShareLine(sorted[i], sorted[j])) =>
            /\ ~(IsReturned(objects, sorted[i]) /\ IsReturned(objects, sorted[j]))
            /\ (\A k \in 1..(i - 1) :
                    IsReturned(objects, sorted[k]) => ~ShareLine(sorted[k], sorted[i]))
                  => IsReturned(objects, sorted[i]) /\ ~IsReturned(objects, sorted[j])

DisjointOnOneLine(s) ==
    \E i, j \in DOMAIN MatchesFrom(s, 1, 1) :
        /\ _find_object_end(s, MatchesFrom(s, 1, 1)[i][2], MatchesFrom(s, 1, 1)[i][1]) # -1
        /\ _find_object_end(s, MatchesFrom(s, 1, 1)[i][2], MatchesFrom(s, 1, 1)[i][1])
              <= MatchesFrom(s, 1, 1)[j][2]
        /\ _find_object_end(s, MatchesFrom(s, 1, 1)[j][2], MatchesFrom(s, 1, 1)[j][1]) # -1
        /\ LineOf(s, _find_object_end(s, MatchesFrom(s, 1, 1)[i][2], MatchesFrom(s, 1, 1)[i][1]))
              = LineOf(s, MatchesFrom(s, 1, 1)[j][2])

SecondJobs == {j \in DOMAIN remote.jobs : remote.jobs[j].name = second_job_name}

\* C28: when there are notebooks of tables or views and the first job gave
\* no run_id, no job of the functions and procedures is created or started;
\* a job of the functions and procedures without dependency exists only when
\* there is no notebook of tables or views.
C28_NoSecondJobWithoutFirstRun ==
    \A j \in SecondJobs :
        /\ job_results.categorized_paths["tables_views"] # <<>>
              => HasRunId(job_results, "first_job")
        /\ remote.jobs[j].depends_on = <<>>
              => job_results.categorized_paths["tables_views"] = <<>>

\* C28's case: the call has returned, there are notebooks of both kinds, the
\* first job gave no run_id, and no job of the functions and procedures was
\* created.
C28_Witness ==
    /\ pc = "returned"
    /\ "categorized_paths" \in DOMAIN job_results
    /\ job_results.categorized_paths["tables_views"] # <<>>
    /\ job_results.categorized_paths["functions_procedures"] # <<>>
    /\ "error" \in DOMAIN job_results["first_job"]
    /\ SecondJobs = {}
    /\ RunsOf(1) = {}

\* The offsets of the slashes of path.
Slashes(path) == Occurrences(path, <<"/">>)

\* The name of the directory that holds path, in lower case: what stands
\* between its last slash and the slash before; <<"/">>, which is no name,
\* when path has no slash.
ParentDirectory(path) ==
    IF Slashes(path) = {} THEN <<"/">>
    ELSE LET last == CHOOSE x \in Slashes(path) : \A y \in Slashes(path) : y <= x
             before == {y \in Slashes(path) : y < last}
         IN  lower(Slice(path,
                 IF before = {} THEN 0
                 ELSE (CHOOSE x \in before : \A y \in before : y <= x) + 1,
                 last))

\* The bucket of path by the name of its directory.
BucketByDirectory(path) ==
    IF ParentDirectory(path) \in TablesViewsDirectories THEN "tables_views"
    ELSE IF ParentDirectory(path) \in FunctionsProceduresDirectories
    THEN "functions_procedures"
    ELSE "others"

\* The paths of a list that belong to bucket b, in the order of the list.
PathsOfBucket(paths, b) == SelectSeq(paths, LAMBDA path : BucketByDirectory(path) = b)

\* C29: every path is in exactly one bucket, the one of the lower-cased name
\* of its directory, in the order of the input; the job of the tables and
\* views holds the paths of tables_views and no other, the job of the
\* functions and procedures those of functions_procedures and no other, and
\* no job holds a path of the bucket others.
C29_EachPathInItsJob ==
    "categorized_paths" \in DOMAIN job_results =>
        /\ \A b \in {"tables_views", "functions_procedures", "others"} :
               job_results.categorized_paths[b] = PathsOfBucket(workspace_paths, b)
        /\ \A j \in DOMAIN remote.jobs :
               /\ remote.jobs[j].name \in {first_job_name, second_job_name}
               /\ remote.jobs[j].tasks =
                     PathsOfBucket(workspace_paths,
                         IF remote.jobs[j].name = first_job_name
                         THEN "tables_views" ELSE "functions_procedures")
               /\ \A k \in DOMAIN remote.jobs[j].tasks :
                      BucketByDirectory(remote.jobs[j].tasks[k]) # "others"

\* C29's case: the call has returned with a job created for a notebook whose
\* directory is written with a capital, and a notebook was left in others.
C29_Witness ==
    /\ pc = "returned"
    /\ "categorized_paths" \in DOMAIN job_results
    /\ job_results.categorized_paths["others"] # <<>>
    /\ \E j \in DOMAIN remote.jobs : remote.jobs[j].tasks = <<J_View>>

(***************************************************************************)
(* The conversion service (llm_converter_service.py): _convert_objects     *)
(***************************************************************************)

\* invalid_chars of _sanitize_filename
InvalidChars == {"<", ">", ":", "\"", "/", "\\", "|", "?", "*"}

\* str.strip(chars)
StripChars(s, chars) ==
    IF First(LAMBDA i : At(s, i) \notin chars, 0, Len(s))
          >= Len(s) - First(LAMBDA k : s[Len(s) - k] \notin chars, 0, Len(s))
    THEN <<>>
    ELSE SubSeq(s, First(LAMBDA i : At(s, i) \notin chars, 0, Len(s)) + 1,
                Len(s) - First(LAMBDA k : s[Len(s) - k] \notin chars, 0, Len(s)))

W_unnamed == <<"u","n","n","a","m","e","d">>

\* The longest file name that _sanitize_filename returns.
MaxFilenameLength == 100

\* The name once its invalid characters are replaced and its dots and spaces
\* stripped.
Replaced(filename) ==
    StripChars([i \in DOMAIN filename |->
                   IF filename[i] \in InvalidChars THEN "_" ELSE filename[i]],
               {".", " "})

\* _sanitize_filename
_sanitize_filename(filename) ==
    Slice(IF Replaced(filename) = <<>> THEN W_unnamed ELSE Replaced(filename),
          0, MaxFilenameLength)

W_ipynb == <<".","i","p","y","n","b">>

\* The path of the notebook of a table: "<safe_name>.ipynb" in the folder of
\* the tables, which stands for the whole path.
TableNotebookPath(name) == _sanitize_filename(name) \o W_ipynb

\* The dictionary d after d[key] = value.
Put(d, key, value) ==
    [k \in DOMAIN d \cup {key} |-> IF k = key THEN value ELSE d[k]]

\* A cell of a notebook: its kind and the object whose SQL it holds.
Cell(kind, name) == [kind |-> kind, name |-> name]

\* A notebook: the object_name of its metadata and its cells.
Notebook(object_name, cells) == [object_name |-> object_name, cells |-> cells]

\* The cells that _add_sql_notebook_cells adds for converted_sql.
SqlCells(name, converted_sql) ==
    IF converted_sql = "" THEN <<>> ELSE <<Cell("sql", name)>>

\* _create_databricks_notebook for an object of the category TABLE: the
\* folder of the tables once the notebook is written.
_create_databricks_notebook(disk, sql_obj, converted_sql) ==
    Put(disk, TableNotebookPath(sql_obj.name),
        Notebook(sql_obj.name,
                 <<Cell("original", sql_obj.name)>>
                 \o SqlCells(sql_obj.name, converted_sql)))

\* _upsert_table_notebook: the folder of the tables once the notebook is
\* written.
_upsert_table_notebook(disk, sql_obj, converted_sql) ==
    IF TableNotebookPath(sql_obj.name) \in DOMAIN disk
    THEN Put(disk, TableNotebookPath(sql_obj.name),
             [disk[TableNotebookPath(sql_obj.name)] EXCEPT !.cells =
                 @ \o <<Cell("definition_header", sql_obj.name),
                        Cell("sql", sql_obj.name)>>])
    ELSE _create_databricks_notebook(disk, sql_obj, converted_sql)

\* The notebooks that _find_existing_table_notebook may return: it returns
\* the first of os.listdir, whose order is arbitrary, that passes its test.
_find_existing_table_notebook(disk, table_name) ==
    {fname \in DOMAIN disk :
        /\ StartsWith(lower(fname), 0, lower(_sanitize_filename(table_name)))
        /\ endswith(lower(fname), W_ipynb)}

\* The notebook paths that _append_insert_to_table_notebook may settle on.
InsertNotebookPaths(by_name, disk, sql_obj) ==
    IF lower(sql_obj.name) \in DOMAIN by_name
    THEN {by_name[lower(sql_obj.name)]}
    ELSE IF _find_existing_table_notebook(disk, sql_obj.name) # {}
    THEN _find_existing_table_notebook(disk, sql_obj.name)
    ELSE {TableNotebookPath(sql_obj.name)}

\* The placeholder of _append_insert_to_table_notebook.
placeholder_obj(sql_obj) ==
    SQLObject(sql_obj.name, "TABLE", <<>>, sql_obj.start_line,
              sql_obj.end_line, sql_obj.file_path, {})

\* The folder of the tables before the INSERT section is appended: the
\* placeholder is written when no notebook was found.
WithPlaceholder(by_name, disk, sql_obj) ==
    IF lower(sql_obj.name) \notin DOMAIN by_name
       /\ _find_existing_table_notebook(disk, sql_obj.name) = {}
    THEN _create_databricks_notebook(disk, placeholder_obj(sql_obj), "")
    ELSE disk

\* _append_insert_to_table_notebook, which settles on notebook_path: the
\* folder of the tables once the INSERT section is appended.
_append_insert_to_table_notebook(by_name, disk, sql_obj, notebook_path) ==
    Put(WithPlaceholder(by_name, disk, sql_obj), notebook_path,
        [WithPlaceholder(by_name, disk, sql_obj)[notebook_path] EXCEPT !.cells =
            @ \o <<Cell("insert_header", sql_obj.name),
                   Cell("insert", sql_obj.name)>>])

\* The first statement of _convert_objects.
NoResults == [total |-> 0, successful |-> 0, failed |-> 0, conversions |-> <<>>]

\* A faulty entry of a failure, which counts it and records nothing.
FailedUnrecorded(res, obj, error) == [res EXCEPT !.failed = @ + 1]

\* results["failed"] += 1 and the entry of a failure.
Failed(res, obj, error) ==
    [res EXCEPT !.failed = @ + 1,
                !.conversions = Append(@,
                    [object_name |-> obj.name,
                     object_type |-> TypeValue[obj.object_type],
                     status      |-> "failed",
                     error       |-> error])]

\* results["successful"] += 1 and the entry of a success.
Succeeded(res, obj, notebook_path) ==
    [res EXCEPT !.successful = @ + 1,
                !.conversions = Append(@,
                    [object_name       |-> obj.name,
                     object_type       |-> TypeValue[obj.object_type],
                     original_sql_path |-> _sanitize_filename(obj.name),
                     notebook_path     |-> notebook_path,
                     status            |-> "success"])]

\* The records of the items of parsed_objects, in the order of the loops.
RECURSIVE RecordsOf(_)
RecordsOf(items) ==
    IF items = <<>> THEN <<>>
    ELSE Head(items).objects \o RecordsOf(Tail(items))

\* The body of the try statement for obj once its SQL is converted.
Converted(res, obj) ==
    IF obj.object_type = "INSERT"
    THEN \E notebook_path \in InsertNotebookPaths(_table_notebook_by_name, notebooks, obj) :
            /\ notebooks' = _append_insert_to_table_notebook(
                                _table_notebook_by_name, notebooks, obj, notebook_path)
            /\ _table_notebook_by_name' =
                   Put(_table_notebook_by_name, lower(obj.name), notebook_path)
            /\ results' = Succeeded(res, obj, notebook_path)
    ELSE IF obj.object_type = "TABLE"
    THEN /\ notebooks' = _upsert_table_notebook(notebooks, obj, "sql")
         /\ _table_notebook_by_name' =
                Put(_table_notebook_by_name, lower(obj.name),
                    TableNotebookPath(obj.name))
         /\ results' = Succeeded(res, obj, TableNotebookPath(obj.name))
    ELSE /\ results' = Succeeded(res, obj, _sanitize_filename(obj.name))
         /\ UNCHANGED <<notebooks, _table_notebook_by_name>>

\* One turn of the loops of _convert_objects, for the record obj: the file of
\* the original is written or the write raises, and the model answers with
\* SQL or with nothing.
ConvertObject ==
    /\ position < Len(RecordsOf(parsed_objects))
    /\ \E saved \in BOOLEAN, answered \in BOOLEAN :
          IF ~saved
          THEN /\ results' = Failed([results EXCEPT !.total = @ + 1],
                                    RecordsOf(parsed_objects)[position + 1],
                                    "exception")
               /\ UNCHANGED <<notebooks, _table_notebook_by_name>>
          ELSE IF ~answered
          THEN /\ results' = Failed([results EXCEPT !.total = @ + 1],
                                    RecordsOf(parsed_objects)[position + 1],
                                    "LLM conversion returned empty result")
               /\ UNCHANGED <<notebooks, _table_notebook_by_name>>
          ELSE Converted([results EXCEPT !.total = @ + 1],
                         RecordsOf(parsed_objects)[position + 1])
    /\ position' = position + 1
    /\ UNCHANGED <<parsed_objects, parser_vars, job_vars>>

\* t
G_T ==
    <<"t">>

\* t2
G_T2 ==
    <<"t","2">>

\* T
G_UpperT ==
    <<"T">>

\* u
G_U ==
    <<"u">>

\* v
G_V ==
    <<"v">>

\* The names of the tables, of the view and of the targets of the INSERTs.
TableNames == {G_T2, G_UpperT}
ViewNames == {G_V}
InsertNames == {G_T, G_U}

\* The number of records of one category.
MaxRecords == 2

\* The records of a category obj_type that have the names of a list.
RecordsNamed(names, obj_type) ==
    [i \in DOMAIN names |-> SQLObject(names[i], obj_type, <<>>, i, i, NoPath, {})]

\* The items of the dictionary that parse_folder returns, with the records
\* of the tables, of the views and of the INSERTs.
ParsedItems(tables, views, inserts) ==
    [t \in DOMAIN SQLObjectTypeOrder |->
        [key     |-> SQLObjectTypeOrder[t],
         objects |-> CASE SQLObjectTypeOrder[t] = "TABLE" -> RecordsNamed(tables, "TABLE")
                       [] SQLObjectTypeOrder[t] = "VIEW" -> RecordsNamed(views, "VIEW")
                       [] SQLObjectTypeOrder[t] = "INSERT" -> RecordsNamed(inserts, "INSERT")
                       [] OTHER -> <<>>]]

\* The notebook of the table t, written by an earlier conversion.
EarlierNotebooks ==
    Put(EmptyDict, TableNotebookPath(G_T),
        Notebook(G_T, <<Cell("original", G_T), Cell("sql", G_T)>>))

\* _convert_objects is entered with the records of a folder; the folder of
\* the tables is empty or holds the notebook of an earlier conversion.
InitConvert ==
    /\ content = <<>>
    /\ hashseed = <<1>>
    /\ parsed = <<>>
    /\ folder = NoFolder
    /\ result = NotCalled
    /\ self = __init__
    /\ NoJobsCall
    /\ \E tables \in Listings(TableNames, MaxRecords),
          views \in Listings(ViewNames, MaxRecords),
          inserts \in Listings(InsertNames, MaxRecords) :
            parsed_objects = ParsedItems(tables, views, inserts)
    /\ position = 0
    /\ results = NoResults
    /\ _table_notebook_by_name = EmptyDict
    /\ notebooks \in {EmptyDict, EarlierNotebooks}

SpecConvert == InitConvert /\ [][ConvertObject]_vars

\* The INSERT sections of the notebook fname, by the name of their target.
InsertsOf(fname) ==
    {notebooks[fname].cells[k].name : k \in
        {c \in DOMAIN notebooks[fname].cells :
            notebooks[fname].cells[c].kind = "insert"}}

\* C24: the SQL of an INSERT is appended only to the notebook of the table
\* whose name is the name of its target, whatever the case of the letters: no
\* notebook holds the INSERT of another table.
C24_InsertGoesToItsTable ==
    \A fname \in DOMAIN notebooks :
        \A name \in InsertsOf(fname) :
            lower(name) = lower(notebooks[fname].object_name)

\* _convert_objects has processed every record.
Processed == position = Len(RecordsOf(parsed_objects))

\* C30: while _convert_objects runs, total is the number of the records it
\* has processed, total = successful + failed, and conversions holds one
\* entry for each of them, in their order; whatever the answers and the
\* exceptions, it processes every record: at its end total is the number of
\* the parsed records.
C30_EveryRecordIsCounted ==
    /\ results.total = position
    /\ results.total = results.successful + results.failed
    /\ Len(results.conversions) = results.total
    /\ \A i \in DOMAIN results.conversions :
          /\ results.conversions[i].object_name = RecordsOf(parsed_objects)[i].name
          /\ results.conversions[i].object_type
                = TypeValue[RecordsOf(parsed_objects)[i].object_type]
    /\ results.successful =
          Cardinality({i \in DOMAIN results.conversions :
                          results.conversions[i].status = "success"})
    /\ ~Processed => ENABLED ConvertObject

\* C30's case: every record was processed, one after an exception, one after
\* an empty answer, and one after them with success.
C30_Witness ==
    /\ Processed
    /\ \E i, j, k \in DOMAIN results.conversions :
          /\ i < k /\ j < k
          /\ results.conversions[i].status = "failed"
          /\ results.conversions[i].error = "exception"
          /\ results.conversions[j].status = "failed"
          /\ results.conversions[j].error = "LLM conversion returned empty result"
          /\ results.conversions[k].status = "success"

====
